---- MODULE Spec2Model ----
(***************************************************************************)
(* Knowledge-Assembly-RNN: the trial-sequence generator and stimulus       *)
(* sampler of define_dataset.py and the recurrent train / test / lesion /  *)
(* activation engine of magnitude_network.py, as one state machine.        *)
(***************************************************************************)
EXTENDS Integers, Sequences, FiniteSets, TLC

(***************************************************************************)
(* Program constants (constants.py).                                       *)
(***************************************************************************)
TOTALMAXNUM == 8
NCONTEXTS == 2
FULLR_LLIM == 1
FULLR_ULIM == 8
LOWR_LLIM == 1
LOWR_ULIM == 4
HIGHR_LLIM == 5
HIGHR_ULIM == 8
MTESTSETS == 2

(***************************************************************************)
(* Bounds of the model.  BPTT_len is args.BPTT_len (120 by default),       *)
(* MBLOCKS is const.MBLOCKS (24), and the numbers of sequences per block   *)
(* stand for NTRAIN/MBLOCKS (120) and NTEST/MBLOCKS (20).                  *)
(***************************************************************************)
BPTT_len == 4
MBLOCKS == 2
TrainSeqsPerBlock == 3
TestSeqsPerBlock == 1

(***************************************************************************)
(* Values outside the numbers: NaN is np.nan (also what storing None in a  *)
(* float array gives), Uninit is a slot of np.empty that was never         *)
(* written, None is Python's None for a number or a trial type, NoVec is   *)
(* None for a vector, and IndexError is the result of an indexing fault.   *)
(***************************************************************************)
NaN == -1
Uninit == -2
None == 0
NoType == "None"
NoVec == << >>
IndexError == <<-1>>

Range(lo, hi) == [k \in 1..(hi - lo + 1) |-> lo + k - 1]

(***************************************************************************)
(* turn_one_hot: a zero vector of length maxSize with position             *)
(* integer-(NCONTEXTS-1), counted from 0, set to 1.  An index outside the  *)
(* vector is numpy's IndexError: the value "IndexError".                   *)
(***************************************************************************)
turn_one_hot(integer, maxSize) ==
    LET idx == integer - (NCONTEXTS - 1)
        pos == IF idx < 0 THEN maxSize + idx ELSE idx
    IN IF pos < 0 \/ pos >= maxSize
         THEN IndexError
         ELSE [k \in 1..maxSize |-> IF k = pos + 1 THEN 1 ELSE 0]

(* turn_one_hot_to_integer: the (first) nonzero position, counted from 1.  *)
turn_one_hot_to_integer(onehot) ==
    CHOOSE k \in 1..Len(onehot) :
        onehot[k] # 0 /\ \A j \in 1..(k - 1) : onehot[j] = 0

ZeroVec(n) == [k \in 1..n |-> 0]

(* turn_index_to_context: context 1 up to LOWR_ULIM, context 2 above.      *)
turn_index_to_context(randind) ==
    IF randind <= LOWR_ULIM THEN 1 ELSE 2

(***************************************************************************)
(* generate_trial_sequence: runs of one compare trial followed by 2, 3 or  *)
(* 4 fillers (or all compare trials when fillers are off), in a random     *)
(* order, flattened.  Line 325 reads the first BPTT_len labels only, and   *)
(* for BPTT_len <= 30 the ten repetitions of each run length do not        *)
(* restrict which prefixes occur, so the operator returns the set of       *)
(* prefixes of length BPTT_len.  The function takes include_fillers only:  *)
(* its sequence is 120 trials long whatever args.BPTT_len is; the          *)
(* configuration's field trials stands for that length, and is the bound   *)
(* BPTT_len unless the whole configuration is scaled.                      *)
(***************************************************************************)
RunLengths == {3, 4, 5}

(* A run that ends on a compare trial.                                     *)
Run_TrailingCompare(n, include_fillers) ==
    [k \in 1..n |-> IF k = 1 \/ k = n \/ ~include_fillers
                      THEN "compare" ELSE "filler"]

Run(n, include_fillers) ==
    [k \in 1..n |-> IF k = 1 \/ ~include_fillers THEN "compare" ELSE "filler"]

RECURSIVE RunPrefixes(_, _)
RunPrefixes(n, include_fillers) ==
    IF n <= 0 THEN {<< >>}
    ELSE UNION { { IF r >= n THEN SubSeq(Run(r, include_fillers), 1, n)
                              ELSE Run(r, include_fillers) \o rest :
                     rest \in RunPrefixes(n - r, include_fillers) } :
                 r \in RunLengths }

(***************************************************************************)
(* State of create_separate_input_data.                                    *)
(***************************************************************************)
VARIABLES
    args,                 \* the configuration (argparse namespace)
    pc,                   \* position in create_separate_input_data
    phase,                \* index into phases: 0 is 'train', 1.. are 'test'
    block, sample, item,  \* the three loop counters
    context,              \* the current true context (1 or 2)
    randNumDistribution,  \* the numbers compare trials are drawn from
    firstTrialInContext,
    type_sequence, trialtypeinput,
    input_sequence, contextsequence, contextinputsequence,
    previousFillerNum, previousTrialtype,
    refValue, judgementValue,
    target, allJValues, allRValues,   \* the labelled sequence, as stored
    prevLastCompare       \* stimulus of the last compare trial stored for
                          \* the previous sequence of this block (0: none)

dataRest == <<phase, block, sample, item, context,
              randNumDistribution, firstTrialInContext, type_sequence,
              trialtypeinput, input_sequence, contextsequence,
              contextinputsequence, previousFillerNum, previousTrialtype,
              refValue, judgementValue, target, allJValues, allRValues,
              prevLastCompare>>

dataVars == <<args, pc, phase, block, sample, item, context,
              randNumDistribution, firstTrialInContext, type_sequence,
              trialtypeinput, input_sequence, contextsequence,
              contextinputsequence, previousFillerNum, previousTrialtype,
              refValue, judgementValue, target, allJValues, allRValues,
              prevLastCompare>>

(***************************************************************************)
(* State of magnitude_network.py: one call of recurrent_train,             *)
(* recurrent_test or recurrent_lesion_test over a data loader.             *)
(***************************************************************************)
VARIABLES
    fn,                   \* the function that is running
    network,              \* the function the model computes
    loader,               \* the batches of the DataLoader, in order
    weights,              \* the model's parameters: the number of updates
    batch_idx, item_idx,  \* loop counters (counted from 0, as in Python)
    recurrentinputs,      \* inputX of every position of the batch
    lesionRecord,
    hidden, latentstate,
    loss,                 \* the loss of the batch: its criterion terms
    train_loss, test_loss,
    correct, trials_counter, all_trials_counter,
    ref_Value,            \* recurrent_test: the audit's reference value
    trials_file,          \* recurrent_test: the lines of the audit file
    whichLesion, lesionFrequency,   \* arguments of recurrent_lesion_test
    assess_idx, trial, tmpinputs, lesion_number, sequenceAssessment,
    ncomparetrials, overallperf, lesionperf,
    n_sequences, overallcomparisons, aggregateLesionPerf, aggregatePerf,
    allLesionAssessments,
    calls,                \* the calls of model(...) made so far
    result                \* what the function returned

engineVars == <<fn, network, loader, weights, batch_idx, item_idx, recurrentinputs,
                lesionRecord, hidden, latentstate, loss, train_loss,
                test_loss, correct, trials_counter, all_trials_counter,
                ref_Value, trials_file, whichLesion, lesionFrequency,
                assess_idx, trial, tmpinputs, lesion_number,
                sequenceAssessment, ncomparetrials, overallperf,
                lesionperf, n_sequences, overallcomparisons,
                aggregateLesionPerf, aggregatePerf, allLesionAssessments,
                calls, result>>

(***************************************************************************)
(* State of train_recurrent_network (magnitude_network.py).                *)
(***************************************************************************)
VARIABLES
    stage,                \* position in train_recurrent_network
    trainloader, testloader,
    n_epochs, epoch,
    standard_train_accuracy,
    train_perf, test_perf,
    trainingPerformance, testPerformance,
    files,                \* the two audit files, 'train_' and 'test_'
    writer,               \* what log_performance was given
    record                \* the training record written at the end

orchVars == <<stage, trainloader, testloader, n_epochs, epoch,
              standard_train_accuracy, train_perf, test_perf,
              trainingPerformance, testPerformance, files, writer, record>>

(***************************************************************************)
(* State of get_activations (magnitude_network.py).                        *)
(***************************************************************************)
VARIABLES
    whichType, trainset,
    unique_inputs_n_context,
    activations, aggregate_activations, counter,
    contexts, labels_judgeValues, labels_refValues, MDSlabels, time_index,
    index, inputB,
    stdout

actVars == <<whichType, trainset, unique_inputs_n_context, activations,
             aggregate_activations, counter, contexts, labels_judgeValues,
             labels_refValues, MDSlabels, time_index, index, inputB,
             stdout>>

vars == <<dataVars, engineVars, orchVars, actVars>>

(* Mblocks and N of the current phase (lines 209-238); constants.py of     *)
(* this tree sets no MBLOCKS_LONG, NTRAIN_LONG or NTEST_LONG, so the long  *)
(* regime is given the sizes of the short one.                             *)
MBLOCKS_LONG == MBLOCKS
NTRAIN == MBLOCKS * TrainSeqsPerBlock
NTEST == MBLOCKS * TestSeqsPerBlock

(***************************************************************************)
(* The configurations explored.                                            *)
(***************************************************************************)
Config(fillers, fullrange, long, labelling, which) ==
    [include_fillers |-> fillers, all_fullrange |-> fullrange,
     train_long |-> long, label_context |-> labelling,
     which_context |-> which, BPTT_len |-> BPTT_len, trials |-> BPTT_len,
     Ntrain |-> NTRAIN, Ntest |-> NTEST]

(* The same configuration with another --BPTT_len.                         *)
Horizon(config, len) == [config EXCEPT !.BPTT_len = len]

(* The same configuration with sequences of another length: both the       *)
(* trials generate_trial_sequence returns and --BPTT_len.                  *)
Scaled(config, len) == [config EXCEPT !.BPTT_len = len, !.trials = len]

(* The same configuration with other numbers of sequences per split        *)
(* (lines 207-220: Ntrain and Ntest, read from constants.py).              *)
Counts(config, ntrain, ntest) ==
    [config EXCEPT !.Ntrain = ntrain, !.Ntest = ntest]

DataConfigs ==
    { Config(TRUE, FALSE, FALSE, "true", 0),      \* blocked, with fillers
      Config(FALSE, FALSE, FALSE, "constant", 0), \* blocked, compare only
      Config(TRUE, FALSE, TRUE, "true", 0),       \* long: the linking pair
      Config(FALSE, FALSE, FALSE, "random", 1),   \* random context labels
      Horizon(Config(TRUE, FALSE, FALSE, "true", 0), BPTT_len - 1),
      Horizon(Config(FALSE, FALSE, FALSE, "true", 0), BPTT_len + 1),
      Counts(Config(FALSE, FALSE, FALSE, "constant", 0), NTRAIN + 1, NTEST),
      Counts(Config(TRUE, FALSE, TRUE, "true", 0), NTRAIN, NTEST + 1) }

(***************************************************************************)
(* Lines 260-313: the context and number range of block b of phase p,      *)
(* where ctx is the value the variable context holds on entry (the long    *)
(* regime and the test phases do not set it here).                         *)
(***************************************************************************)
PhaseNameOf(p) == IF p = 0 THEN "train" ELSE "test"

MblocksOf(p) ==
    IF PhaseNameOf(p) = "train" /\ args.train_long
      THEN MBLOCKS_LONG ELSE MBLOCKS

(* The split with the middle block counted to the first half.             *)
BlockContext_Inclusive(p, b, ctx) ==
    IF PhaseNameOf(p) = "train" /\ ~args.train_long
      THEN IF args.which_context = 0
             THEN IF b * NCONTEXTS <= MblocksOf(p) THEN 1 ELSE 2
             ELSE args.which_context
      ELSE ctx

BlockContext(p, b, ctx) ==
    IF PhaseNameOf(p) = "train" /\ ~args.train_long
      THEN IF args.which_context = 0
             THEN IF b * NCONTEXTS < MblocksOf(p) THEN 1 ELSE 2
             ELSE args.which_context
      ELSE ctx

minNumerosity(p, b) ==
    IF PhaseNameOf(p) = "train"
      THEN IF ~args.train_long
             THEN IF BlockContext(p, b, None) = 1
                    THEN LOWR_LLIM ELSE HIGHR_LLIM
             ELSE LOWR_ULIM
      ELSE FULLR_LLIM

maxNumerosity(p, b) ==
    IF PhaseNameOf(p) = "train"
      THEN IF ~args.train_long
             THEN IF BlockContext(p, b, None) = 1
                    THEN LOWR_ULIM ELSE HIGHR_ULIM
             ELSE HIGHR_LLIM
      ELSE FULLR_ULIM

(* The long regime drawing from one number of the linking pair only.       *)
BlockDistribution_LinkingPoint(p, b) ==
    IF args.train_long /\ PhaseNameOf(p) = "train"
      THEN Range(LOWR_ULIM, LOWR_ULIM)
      ELSE IF args.all_fullrange
             THEN Range(FULLR_LLIM, FULLR_ULIM) \o Range(LOWR_LLIM, LOWR_ULIM)
                    \o Range(HIGHR_LLIM, HIGHR_ULIM)
             ELSE Range(minNumerosity(p, b), maxNumerosity(p, b))

BlockDistribution(p, b) ==
    IF args.train_long /\ PhaseNameOf(p) = "train"
      THEN Range(LOWR_ULIM, HIGHR_LLIM)
      ELSE IF args.all_fullrange
             THEN Range(FULLR_LLIM, FULLR_ULIM) \o Range(LOWR_LLIM, LOWR_ULIM)
                    \o Range(HIGHR_LLIM, HIGHR_ULIM)
             ELSE Range(minNumerosity(p, b), maxNumerosity(p, b))

PhaseName == PhaseNameOf(phase)
Mblocks == MblocksOf(phase)
NOf(p) == IF PhaseNameOf(p) = "train" THEN args.Ntrain ELSE args.Ntest
N == NOf(phase)

DataStart ==
    /\ pc = "phase_start"
    /\ phase = 0 /\ block = 0 /\ sample = 0 /\ item = 0
    /\ context = BlockContext(0, 0, None)
    /\ randNumDistribution = BlockDistribution(0, 0)
    /\ firstTrialInContext = TRUE
    /\ type_sequence = << >> /\ trialtypeinput = << >>
    /\ input_sequence = << >> /\ contextsequence = << >>
    /\ contextinputsequence = << >>
    /\ previousFillerNum = NoVec /\ previousTrialtype = NoType
    /\ refValue = None /\ judgementValue = None
    /\ target = << >> /\ allJValues = << >> /\ allRValues = << >>
    /\ prevLastCompare = 0

InitData == args \in DataConfigs /\ DataStart

(* A local name that is not bound yet, and the results of a call: a value  *)
(* returned or an exception raised.                                        *)
Unbound == << >>
UnboundNumber == -3
NoResult == [raised |-> "", value |-> << >>]
Returned(value) == [raised |-> "", value |-> value]
Raised(exception) == [raised |-> exception, value |-> << >>]

(* get_activations while it is not running.                                *)
ActIdle ==
    /\ whichType = NoType /\ trainset = << >>
    /\ unique_inputs_n_context = << >>
    /\ activations = << >> /\ aggregate_activations = << >>
    /\ counter = << >> /\ contexts = << >>
    /\ labels_judgeValues = << >> /\ labels_refValues = << >>
    /\ MDSlabels = << >> /\ time_index = << >>
    /\ index = UnboundNumber /\ inputB = NoVec
    /\ stdout = << >>

(* train_recurrent_network while it is not running.                        *)
OrchIdle ==
    /\ stage = NoType /\ trainloader = << >> /\ testloader = << >>
    /\ n_epochs = 0 /\ epoch = 0
    /\ standard_train_accuracy = << >>
    /\ train_perf = << >> /\ test_perf = << >>
    /\ trainingPerformance = << >> /\ testPerformance = << >>
    /\ files = << >> /\ writer = << >> /\ record = << >>

(* The engine while it is not running.                                     *)
EngineIdle ==
    /\ fn = NoType /\ network = NoType /\ loader = << >> /\ weights = 0
    /\ batch_idx = 0 /\ item_idx = 0
    /\ recurrentinputs = << >> /\ lesionRecord = << >>
    /\ hidden = << >> /\ latentstate = << >>
    /\ loss = << >> /\ train_loss = << >> /\ test_loss = << >>
    /\ correct = 0 /\ trials_counter = 0 /\ all_trials_counter = 0
    /\ ref_Value = NaN /\ trials_file = << >>
    /\ whichLesion = NoType /\ lesionFrequency = 0
    /\ assess_idx = 0 /\ trial = 0 /\ tmpinputs = Unbound
    /\ lesion_number = UnboundNumber /\ sequenceAssessment = << >>
    /\ ncomparetrials = 0 /\ overallperf = 0 /\ lesionperf = UnboundNumber
    /\ n_sequences = 0 /\ overallcomparisons = 0
    /\ aggregateLesionPerf = 0 /\ aggregatePerf = 0
    /\ allLesionAssessments = << >>
    /\ calls = << >> /\ result = NoResult

(* The stimulus of the last compare trial of a stored sequence (0: none).  *)
LastCompare(inputs, types) ==
    LET at == {i \in 1..Len(inputs) : types[i] = 1}
    IN IF at = {} THEN 0
       ELSE turn_one_hot_to_integer(
                inputs[CHOOSE i \in at : \A j \in at : j <= i])

(* A phase that goes on without the reshape of its index array.            *)
PhaseStart_Truncating ==
    /\ pc = "phase_start"
    /\ pc' = "seq_start"
    /\ UNCHANGED <<args, dataRest, engineVars, orchVars, actVars>>

(* Lines 240-254: the arrays of a phase are allocated with int(N/Mblocks)  *)
(* sequences per block, and range(N) is reshaped to (Mblocks,              *)
(* int(N/Mblocks), 1), which raises ValueError unless Mblocks divides N.   *)
(* A phase of no sequences runs its loop over the blocks (lines 260-313)   *)
(* with empty loops over the samples, and the next phase follows.          *)
PhaseStart ==
    /\ pc = "phase_start"
    /\ IF N % Mblocks # 0
         THEN /\ pc' = "reshape_error"
              /\ UNCHANGED <<phase, block, context, randNumDistribution,
                             firstTrialInContext>>
         ELSE IF N \div Mblocks > 0
           THEN /\ pc' = "seq_start"
                /\ UNCHANGED <<phase, block, context, randNumDistribution,
                               firstTrialInContext>>
           ELSE LET last == Mblocks - 1
                    ctx == BlockContext(phase, last, context)
                IN /\ firstTrialInContext' = TRUE
                   /\ IF phase + 1 > MTESTSETS
                        THEN /\ pc' = "done"
                             /\ block' = last
                             /\ context' = ctx
                             /\ randNumDistribution' =
                                    BlockDistribution(phase, last)
                             /\ UNCHANGED phase
                        ELSE /\ pc' = "phase_start"
                             /\ phase' = phase + 1 /\ block' = 0
                             /\ context' = BlockContext(phase + 1, 0, ctx)
                             /\ randNumDistribution' =
                                    BlockDistribution(phase + 1, 0)
    /\ UNCHANGED <<args, sample, item, type_sequence, trialtypeinput,
                   input_sequence, contextsequence, contextinputsequence,
                   previousFillerNum, previousTrialtype, refValue,
                   judgementValue, target, allJValues, allRValues,
                   prevLastCompare, engineVars, orchVars, actVars>>

(* Line 316: the type sequences the call can return, at the length the     *)
(* configuration gives the 120 trials.                                     *)
generate_trial_sequence(include_fillers) ==
    RunPrefixes(args.trials, include_fillers)

(* Lines 314-321: a new sequence.                                          *)
StartSequence ==
    /\ pc = "seq_start"
    /\ UNCHANGED <<engineVars, orchVars, actVars>>
    /\ type_sequence' \in generate_trial_sequence(args.include_fillers)
    /\ trialtypeinput' = << >>
    /\ input_sequence' = << >> /\ contextsequence' = << >>
    /\ contextinputsequence' = << >>
    /\ previousFillerNum' = NoVec /\ previousTrialtype' = NoType
    /\ target' = << >> /\ allJValues' = << >> /\ allRValues' = << >>
    /\ item' = 0
    /\ pc' = "trial"
    /\ prevLastCompare' =
           IF sample = 0 THEN 0
           ELSE LastCompare(input_sequence, trialtypeinput)
    /\ UNCHANGED <<args, phase, block, sample, context, randNumDistribution,
                   firstTrialInContext, refValue, judgementValue>>

(***************************************************************************)
(* Lines 370-378: the context input of a trial under the labelling policy. *)
(* 'random' draws random.randint(1,3).                                     *)
(***************************************************************************)
ContextInputs(ctx) ==
    IF args.label_context = "true" THEN {turn_one_hot(ctx, NCONTEXTS)}
    ELSE IF args.label_context = "random"
      THEN {turn_one_hot(r, NCONTEXTS) : r \in 1..3}
      ELSE {turn_one_hot(1, NCONTEXTS)}

(* Lines 368-383: the end of one pass of the trial loop.                   *)
AppendTrial(trial_type, input2, ctx) ==
    /\ previousTrialtype' = trial_type
    /\ context' = ctx
    /\ \E contextinput \in ContextInputs(ctx) :
         IF contextinput = IndexError
           THEN /\ pc' = "error"
                /\ UNCHANGED <<input_sequence, contextsequence,
                               contextinputsequence, trialtypeinput, item>>
           ELSE /\ input_sequence' = Append(input_sequence, input2)
                /\ contextsequence' = Append(contextsequence, ctx)
                /\ contextinputsequence' =
                       Append(contextinputsequence, contextinput)
                /\ trialtypeinput' =
                       Append(trialtypeinput,
                              IF trial_type = "compare" THEN 1 ELSE 0)
                /\ item' = item + 1
                /\ pc' = IF item + 1 = args.BPTT_len
                           THEN "seq_end" ELSE "trial"

(* The numbers randNumDistribution[random.choice(indexDistribution)] can   *)
(* be (lines 308, 330-333, 339-341).                                       *)
Draws(distribution) == {distribution[k] : k \in 1..Len(distribution)}

(* Line 352: the context of a sampled compare value.                       *)
CompareContext(value) ==
    IF args.all_fullrange \/ args.train_long \/ PhaseName = "test"
      THEN turn_index_to_context(value)
      ELSE context

(***************************************************************************)
(* Lines 328-353: a compare trial, one draw of the judged value per step.  *)
(* The reference is drawn afresh on the first trial of a block and is the  *)
(* previous judgementValue otherwise; a judged value equal to the          *)
(* reference is drawn again (the while loop of lines 347-349, during       *)
(* which refValue is held).                                                *)
(***************************************************************************)
CompareTrial ==
    /\ pc \in {"trial", "resample_compare"}
    /\ UNCHANGED <<engineVars, orchVars, actVars>>
    /\ item < Len(type_sequence)
    /\ type_sequence[item + 1] = "compare"
    /\ \E fresh \in Draws(randNumDistribution),
          jv \in Draws(randNumDistribution) :
         LET ref == IF pc = "resample_compare" THEN refValue
                    ELSE IF firstTrialInContext /\ item = 0 THEN fresh
                    ELSE judgementValue
         IN /\ judgementValue' = jv
            /\ IF ref = jv
                 THEN /\ refValue' = ref
                      /\ pc' = "resample_compare"
                      /\ UNCHANGED <<context, previousTrialtype,
                                     input_sequence, contextsequence,
                                     contextinputsequence, trialtypeinput,
                                     item>>
                 ELSE /\ refValue' = None
                      /\ AppendTrial("compare",
                                     turn_one_hot(jv, TOTALMAXNUM),
                                     CompareContext(jv))
    /\ UNCHANGED <<args, phase, block, sample, randNumDistribution,
                   firstTrialInContext, type_sequence, previousFillerNum,
                   target, allJValues, allRValues, prevLastCompare>>

(* Line 365-366: fillers get a random context when ranges are interleaved. *)
FillerContexts ==
    IF args.all_fullrange THEN 1..NCONTEXTS ELSE {context}

(***************************************************************************)
(* Lines 355-366: a filler trial, one draw per step.  The number is drawn  *)
(* from the full range; only directly after a compare trial, and only when *)
(* the sequence already holds a filler, a number equal to that previous    *)
(* filler is drawn again (the while loop of lines 359-360).                *)
(***************************************************************************)
FillerTrial ==
    /\ pc \in {"trial", "resample_filler"}
    /\ UNCHANGED <<engineVars, orchVars, actVars>>
    /\ item < Len(type_sequence)
    /\ type_sequence[item + 1] = "filler"
    /\ \E n \in FULLR_LLIM..FULLR_ULIM :
         LET input2 == turn_one_hot(n, TOTALMAXNUM)
         IN IF previousFillerNum # NoVec /\ previousTrialtype = "compare"
               /\ input2 = previousFillerNum
              THEN /\ pc' = "resample_filler"
                   /\ UNCHANGED <<context, previousTrialtype, previousFillerNum,
                                  input_sequence, contextsequence,
                                  contextinputsequence, trialtypeinput, item>>
              ELSE /\ previousFillerNum' = input2
                   /\ \E ctx \in FillerContexts :
                        AppendTrial("filler", input2, ctx)
    /\ UNCHANGED <<args, phase, block, sample, randNumDistribution,
                   firstTrialInContext, type_sequence, refValue,
                   judgementValue, target, allJValues, allRValues,
                   prevLastCompare>>

(* Line 324: trial_type = type_sequence[item] past the end of the type     *)
(* sequence, when args.BPTT_len is above its length (IndexError).          *)
TrialIndexError ==
    /\ pc = "trial"
    /\ item >= Len(type_sequence)
    /\ pc' = "error"
    /\ UNCHANGED <<args, dataRest, engineVars, orchVars, actVars>>

(***************************************************************************)
(* Lines 390-422: the labelling pass over one finished sequence.  rValue   *)
(* is the stimulus of the most recent compare trial (None before the       *)
(* first).  A compare trial is labelled 1 when its value is above rValue   *)
(* and 0 otherwise, NaN when there is no rValue and, unless train_long,    *)
(* NaN when the two values lie on opposite sides of the low/high split.    *)
(* The label slot of a filler trial is never written.                      *)
(***************************************************************************)
CrossRange(judgeValue, rValue) ==
    \/ judgeValue <= LOWR_ULIM /\ rValue >= HIGHR_LLIM
    \/ judgeValue >= HIGHR_LLIM /\ rValue <= LOWR_ULIM

(* The rule with the low/high exclusion applied in the long regime too.    *)
CompareLabel_AlwaysExclude(judgeValue, rValue, train_long) ==
    IF rValue = None THEN NaN
    ELSE IF CrossRange(judgeValue, rValue) THEN NaN
    ELSE IF judgeValue > rValue THEN 1 ELSE 0

CompareLabel(judgeValue, rValue, train_long) ==
    IF rValue = None THEN NaN
    ELSE IF ~train_long /\ CrossRange(judgeValue, rValue) THEN NaN
    ELSE IF judgeValue > rValue THEN 1 ELSE 0

(* Lines 421-422: only a compare trial becomes the next reference.  The     *)
(* variant lets a filler trial become the reference as well.               *)
NextReference_AnyTrial(trialtype, here, rValue) == here

NextReference(trialtype, here, rValue) ==
    IF trialtype = 1 THEN here ELSE rValue

RECURSIVE LabelPass(_, _, _, _, _)
LabelPass(i, rValue, inputs, types, train_long) ==
    IF i > Len(inputs) THEN [target |-> << >>, allJ |-> << >>, allR |-> << >>]
    ELSE LET here == turn_one_hot_to_integer(inputs[i])
             label == IF types[i] = 1
                        THEN CompareLabel(here, rValue, train_long)
                        ELSE Uninit
             jrow == turn_one_hot(here, TOTALMAXNUM)
             rrow == IF rValue = None THEN ZeroVec(TOTALMAXNUM)
                     ELSE turn_one_hot(rValue, TOTALMAXNUM)
             rest == LabelPass(i + 1, NextReference(types[i], here, rValue),
                               inputs, types, train_long)
         IN [target |-> <<label>> \o rest.target,
             allJ |-> <<jrow>> \o rest.allJ,
             allR |-> <<rrow>> \o rest.allR]

(***************************************************************************)
(* Lines 385-436, then the heads of the loops over samples (314), blocks   *)
(* (260-313) and phases (228-254, 438-476) and the save (478-483): the end *)
(* of a sequence.  After the first sequence of a block judgementValue      *)
(* becomes the last stimulus of that sequence; the sequence is labelled    *)
(* and stored; the counters advance, a new block gets its context and      *)
(* number range, and after the last phase the dataset is saved.  Line 435  *)
(* stores the whole type sequence in a row of args.BPTT_len entries, which *)
(* raises ValueError when the two lengths differ.                          *)
(***************************************************************************)
EndSequence ==
    /\ pc = "seq_end"
    /\ UNCHANGED <<engineVars, orchVars, actVars>>
    /\ LET labelled == LabelPass(1, None, input_sequence, trialtypeinput,
                                 args.train_long)
       IN /\ target' = labelled.target
          /\ allJValues' = labelled.allJ
          /\ allRValues' = labelled.allR
    /\ judgementValue' =
           IF firstTrialInContext
             THEN turn_one_hot_to_integer(input_sequence[Len(input_sequence)])
             ELSE judgementValue
    /\ IF Len(type_sequence) # args.BPTT_len
         THEN /\ pc' = "error"
              /\ firstTrialInContext' = FALSE
              /\ UNCHANGED <<phase, block, sample, context,
                             randNumDistribution>>
       ELSE IF sample + 1 < N \div Mblocks
         THEN /\ sample' = sample + 1
              /\ firstTrialInContext' = FALSE
              /\ pc' = "seq_start"
              /\ UNCHANGED <<phase, block, context, randNumDistribution>>
         ELSE LET lastBlock == block + 1 >= Mblocks
                  p == IF lastBlock THEN phase + 1 ELSE phase
                  b == IF lastBlock THEN 0 ELSE block + 1
              IN IF p > MTESTSETS
                   THEN /\ pc' = "done"
                        /\ firstTrialInContext' = FALSE
                        /\ UNCHANGED <<phase, block, sample, context,
                                       randNumDistribution>>
                   ELSE /\ pc' = IF lastBlock THEN "phase_start"
                                 ELSE "seq_start"
                        /\ phase' = p /\ block' = b /\ sample' = 0
                        /\ firstTrialInContext' = TRUE
                        /\ context' = BlockContext(p, b, context)
                        /\ randNumDistribution' = BlockDistribution(p, b)
    /\ UNCHANGED <<args, item, type_sequence, trialtypeinput, input_sequence,
                   contextsequence, contextinputsequence, previousFillerNum,
                   previousTrialtype, refValue, prevLastCompare>>

NextData ==
    \/ PhaseStart
    \/ StartSequence
    \/ CompareTrial
    \/ FillerTrial
    \/ TrialIndexError
    \/ EndSequence

(***************************************************************************)
(* Properties of the generated sequences.  A sequence is complete when     *)
(* its BPTT_len trials are drawn and labelled when EndSequence has run.    *)
(***************************************************************************)
Complete == Len(input_sequence) = BPTT_len
Labelled == Len(target) = BPTT_len
Stimulus(i) == turn_one_hot_to_integer(input_sequence[i])
IsCompare(i) == trialtypeinput[i] = 1

(* The position of the most recent compare trial before i (0: none).       *)
EarlierCompare(i) ==
    LET before == {j \in 1..(i - 1) : IsCompare(j)}
    IN IF before = {} THEN 0
       ELSE CHOOSE j \in before : \A k \in before : k <= j

(* C1: no two trials at adjacent positions of a sequence carry the same    *)
(* stimulus value, fillers included.                                       *)
C1_NoAdjacentRepeat ==
    \A i \in 1..(Len(input_sequence) - 1) :
        input_sequence[i] # input_sequence[i + 1]

(* What the labelling rule gives for a judged value and its reference.     *)
ExpectedLabel(judged, reference) ==
    IF ~args.train_long
       /\ \/ (judged <= LOWR_ULIM /\ reference >= HIGHR_LLIM)
          \/ (reference <= LOWR_ULIM /\ judged >= HIGHR_LLIM)
      THEN NaN
      ELSE IF judged > reference THEN 1 ELSE 0

(* C2 as stated: every compare trial after the first of its context block  *)
(* is labelled against the judged value of the previous compare trial, the *)
(* last compare trial of the block's previous sequence when the trial      *)
(* opens a later sequence of the block.                                    *)
C2_LabelAfterFirstInBlock ==
    Labelled =>
      \A i \in 1..BPTT_len :
        LET e == EarlierCompare(i)
            reference == IF e # 0 THEN Stimulus(e) ELSE prevLastCompare
        IN (IsCompare(i) /\ reference # 0) =>
              target[i] = ExpectedLabel(Stimulus(i), reference)

(* C2, amended: every compare trial after the first compare trial of its   *)
(* sequence is labelled 1 iff its value is above the value of the previous *)
(* compare trial of that sequence and 0 otherwise, and NaN instead when    *)
(* train_long is false and the two values lie on opposite sides of the     *)
(* low/high split.                                                         *)
C2_LabelAfterFirstInSequence ==
    Labelled =>
      \A i \in 1..BPTT_len :
        (IsCompare(i) /\ EarlierCompare(i) # 0) =>
            target[i] = ExpectedLabel(Stimulus(i), Stimulus(EarlierCompare(i)))

(* A short-regime sequence holding a 1, a 0 and a cross-range NaN.         *)
C2_Witness ==
    /\ Labelled /\ ~args.train_long
    /\ \E i, j, k \in 2..BPTT_len :
         /\ IsCompare(i) /\ target[i] = 1
         /\ IsCompare(j) /\ target[j] = 0
         /\ IsCompare(k) /\ target[k] = NaN
         /\ Stimulus(k) >= HIGHR_LLIM
         /\ Stimulus(EarlierCompare(k)) <= LOWR_ULIM

(* The example of C3 cut to the sequence length of the model: trial types  *)
(* compare, filler, filler, compare with stimuli 3, 7, 7, 6.               *)
C3_Example ==
    /\ Labelled
    /\ SubSeq(trialtypeinput, 1, 4) = <<1, 0, 0, 1>>
    /\ Stimulus(1) = 3 /\ Stimulus(2) = 7 /\ Stimulus(3) = 7
    /\ Stimulus(4) = 6

(* C3 as stated: the example labels position 3 (counted from 0) with 1 and *)
(* leaves position 0 undefined, in every regime.                           *)
C3_ExampleLabelledOne ==
    C3_Example => (target[1] = NaN /\ target[4] = 1)

(* C3, amended: the reference of a compare trial is the stimulus of the    *)
(* most recent earlier compare trial of its sequence, fillers skipped: the *)
(* stored refValue is its one-hot code and a defined label is 1 iff the    *)
(* trial's value is above it; a compare trial with no earlier compare      *)
(* trial has label NaN and an all-zero refValue.  The example gives NaN at *)
(* position 0 and, at position 3, 1 when train_long is set and NaN when it *)
(* is not (3 and 6 lie on opposite sides of the split).                    *)
C3_ReferenceIsEarlierCompare ==
    Labelled =>
      /\ \A i \in 1..BPTT_len :
           IsCompare(i) =>
             LET e == EarlierCompare(i)
             IN IF e = 0
                  THEN /\ target[i] = NaN
                       /\ allRValues[i] = [k \in 1..TOTALMAXNUM |-> 0]
                  ELSE /\ allRValues[i] =
                            [k \in 1..TOTALMAXNUM |->
                                 IF k = Stimulus(e) THEN 1 ELSE 0]
                       /\ target[i] \in {NaN, IF Stimulus(i) > Stimulus(e)
                                                THEN 1 ELSE 0}
      /\ C3_Example =>
           /\ target[1] = NaN
           /\ target[4] = IF args.train_long THEN 1 ELSE NaN

C3_Witness == C3_Example /\ args.train_long /\ target[4] = 1

(***************************************************************************)
(*                    magnitude_network.py: the engine                     *)
(***************************************************************************)

(***************************************************************************)
(* The datasets the engine is run on: sequences that                       *)
(* create_separate_input_data stores in a test phase (full number range,   *)
(* context of a trial from turn_index_to_context of the latest compare     *)
(* value), as written by lines 427-436.  The stimuli are the first         *)
(* BPTT_len values of a few fixed series; a series is kept for a trial     *)
(* type sequence when the sampler can draw it (no compare trial repeats    *)
(* the compare trial before it).                                           *)
(***************************************************************************)
NBatches == 2

StimulusSeries ==
    { <<3, 7, 7, 6, 2, 2>>, <<2, 3, 1, 4, 6, 5>>, <<6, 8, 7, 5, 1, 2>> }

SeriesValue(series, i) == series[((i - 1) % Len(series)) + 1]

RECURSIVE CompareChainDistinct(_, _, _, _)
CompareChainDistinct(i, previous, types, series) ==
    IF i > Len(types) THEN TRUE
    ELSE IF types[i] = "compare"
           THEN /\ SeriesValue(series, i) # previous
                /\ CompareChainDistinct(i + 1, SeriesValue(series, i),
                                        types, series)
           ELSE CompareChainDistinct(i + 1, previous, types, series)

StoredSequence(types, series, train_long, label_context) ==
    LET L == Len(types)
        flags == [i \in 1..L |-> IF types[i] = "compare" THEN 1 ELSE 0]
        inputs == [i \in 1..L |->
                      turn_one_hot(SeriesValue(series, i), TOTALMAXNUM)]
        compareAt(i) == CHOOSE j \in 1..i :
                            /\ flags[j] = 1
                            /\ \A k \in (j + 1)..i : flags[k] = 0
        ctx == [i \in 1..L |->
                   turn_index_to_context(SeriesValue(series, compareAt(i)))]
        labelled == LabelPass(1, None, inputs, flags, train_long)
    IN [input |-> inputs,
        label |-> labelled.target,
        refValue |-> labelled.allR,
        judgementValue |-> labelled.allJ,
        context |-> [i \in 1..L |-> turn_one_hot(ctx[i], NCONTEXTS)],
        contextinput |->
            [i \in 1..L |-> IF label_context = "true"
                              THEN turn_one_hot(ctx[i], NCONTEXTS)
                              ELSE turn_one_hot(1, NCONTEXTS)],
        trialtypeinput |-> flags]

DatasetOf(a, pool) ==
    { StoredSequence(types, series, a.train_long, a.label_context) :
        <<types, series>> \in
            { ts \in RunPrefixes(a.BPTT_len, a.include_fillers) \X pool :
                CompareChainDistinct(1, None, ts[1], ts[2]) } }

Dataset(a) == DatasetOf(a, StimulusSeries)

(* DataLoader(dataset, batch_size, shuffle=False): NBatches batches.       *)
Loaders(a) == [1..NBatches -> [1..a.batch_size -> Dataset(a)]]

LesionLoaders(a) ==
    [1..NBatches ->
        [1..a.batch_size ->
            { seq \in Dataset(a) :
                \E i \in 2..(Len(seq.input) - 1) :
                    seq.trialtypeinput[i] = 1 }]]

(***************************************************************************)
(* The hyperparameters explored (define_hyperparams, main.py): the         *)
(* lesion frequencies are per cent, noise_std becomes model.hidden_noise. *)
(***************************************************************************)
Hyper(len, fillers, long, labelling, batch, retain, noise, decoder, freq) ==
    [BPTT_len |-> len, include_fillers |-> fillers, train_long |-> long,
     label_context |-> labelling, batch_size |-> batch,
     retain_hidden_state |-> retain, noise_std |-> noise,
     retrain_decoder |-> decoder, train_lesion_freq |-> freq]

EngineConfigs ==
    { Hyper(BPTT_len, TRUE, FALSE, "true", 1, TRUE, 0, FALSE, 10),
      Hyper(BPTT_len, FALSE, FALSE, "constant", 1, FALSE, 0, TRUE, 0),
      Hyper(BPTT_len, TRUE, TRUE, "true", 2, TRUE, 0, FALSE, 0),
      Hyper(BPTT_len, FALSE, FALSE, "true", 1, TRUE, 1, FALSE, 100),
      Hyper(BPTT_len + 1, TRUE, FALSE, "true", 1, FALSE, 0, TRUE, 0) }

(* recurrent_lesion_test reads no lesion setting of args.  A sequence of   *)
(* 120 trials made of runs of 3 to 5 trials always has a compare trial     *)
(* after its first trial and before its last, so the lesion test is run    *)
(* on such sequences only; with fillers they are two trials longer, which  *)
(* lets either a compare or a filler trial stand second to last.           *)
LesionConfigs ==
    { Hyper(BPTT_len, FALSE, FALSE, "true", 1, TRUE, 0, FALSE, 0),
      Hyper(BPTT_len + 2, TRUE, FALSE, "true", 1, TRUE, 0, FALSE, 0),
      Hyper(BPTT_len, FALSE, FALSE, "constant", 1, FALSE, 1, FALSE, 0),
      Hyper(BPTT_len, FALSE, FALSE, "true", 2, TRUE, 0, FALSE, 0) }

(***************************************************************************)
(* The network.  A hidden state is kept as the term that produced it: the  *)
(* zero state is the empty sequence and a step of the network appends the  *)
(* weights it ran with and the input it read, so two hidden states are     *)
(* equal exactly when the same steps produced them.  Noise of a nonzero    *)
(* standard deviation appends a mark of its own.  The output of a step is  *)
(* a function of the weights, the input and the hidden state; it is kept   *)
(* as its thresholded prediction (output > 0.5) per sequence of the batch, *)
(* for three networks: one whose output is always above 0.5, one whose     *)
(* output never is, and one whose output varies with all three.            *)
(***************************************************************************)
Zeros == << >>
Noise == <<-1, << >>>>
AddNoise(h) == IF args.noise_std = 0 THEN h ELSE Append(h, Noise)
OneStepRNN(x, h) == Append(h, <<weights, x>>)
Networks == {"always", "never", "varying"}
Predict(x, h) ==
    [b \in DOMAIN x |->
        IF network = "always" THEN 1
        ELSE IF network = "never" THEN 0
        ELSE (Len(h) + weights + b + turn_one_hot_to_integer(
                  SubSeq(x[b], 1, TOTALMAXNUM) \o <<1>>)) % 2]

(* answer_correct counting the predictions of 1 instead of those equal to *)
(* the label.                                                              *)
answer_correct_CountsOnes(pred, label) ==
    Cardinality({b \in DOMAIN pred : pred[b] = 1})

(* answer_correct: how many predictions of the batch equal the label.      *)
answer_correct(pred, label) ==
    Cardinality({b \in DOMAIN pred : pred[b] = label})

(* The batch in hand, its first sequence (data[...][0]) and its length.    *)
Batch == loader[batch_idx + 1]
FirstOfBatch == Batch[1]
sequenceLength == Len(FirstOfBatch.input)

(***************************************************************************)
(* Lines 131-149, 241-248, 377-385: inputX of position i (counted from 1)  *)
(* for every sequence of the batch: stimulus, context input, trial type.   *)
(* The context input is zeroed when the FIRST sequence of the batch has a  *)
(* filler at i (trialtype[0,i]); lesioned zeroes the stimulus.             *)
(***************************************************************************)
StimulusSegment(x) == SubSeq(x, 1, TOTALMAXNUM)
ContextSegment(x) == SubSeq(x, TOTALMAXNUM + 1, TOTALMAXNUM + NCONTEXTS)
TypeSegment(x) == SubSeq(x, TOTALMAXNUM + NCONTEXTS + 1, Len(x))

ContextIn(batch, b, i) ==
    IF batch[1].trialtypeinput[i] = 0
      THEN ZeroVec(NCONTEXTS)
      ELSE batch[b].contextinput[i]

InputX(batch, i, lesioned) ==
    [b \in DOMAIN batch |->
        (IF lesioned THEN ZeroVec(TOTALMAXNUM) ELSE batch[b].input[i])
        \o ContextIn(batch, b, i)
        \o <<batch[b].trialtypeinput[i]>>]

(***************************************************************************)
(* Lines 127-147: the lesions recurrent_train applies to the number input  *)
(* of compare trials.  With retrain_decoder, alternate_lesion_trial starts *)
(* true and is flipped after every position; otherwise a compare trial is  *)
(* lesioned when random.random() < train_lesion_freq.                      *)
(***************************************************************************)
alternate_lesion_trial(i) == i % 2 = 1

TrainLesionRecords(batch) ==
    LET L == Len(batch[1].input)
        compare(i) == batch[1].trialtypeinput[i] # 0
    IN { rec \in [1..L -> {0, 1}] :
           \A i \in 1..L :
             IF ~compare(i) THEN rec[i] = 0
             ELSE IF args.retrain_decoder
                    THEN rec[i] = 1 <=> alternate_lesion_trial(i)
             ELSE /\ args.train_lesion_freq = 0 => rec[i] = 0
                  /\ args.train_lesion_freq = 100 => rec[i] = 1 }

(* Lines 151-154, 250-253: the hidden state a batch starts from.           *)
StartHidden_FromLastStep ==
    IF ~args.retain_hidden_state THEN Zeros ELSE hidden

StartHidden == IF ~args.retain_hidden_state THEN Zeros ELSE latentstate

(* The label the loop reads at item_idx: labels come from the first        *)
(* sequence of the batch; a filler's slot was never written and holds      *)
(* whatever the memory held.                                               *)
Garbage == {NaN, 0, 1}
LabelsRead ==
    LET stored == FirstOfBatch.label[item_idx + 1]
    IN IF stored = Uninit THEN Garbage ELSE {stored}

Call(x, hin, hout) ==
    [batch_idx |-> batch_idx, item_idx |-> item_idx, input |-> x,
     hidden_in |-> hin, hidden_out |-> hout]

(***************************************************************************)
(* recurrent_train (lines 100-214).                                        *)
(***************************************************************************)
engineLocals == <<whichLesion, lesionFrequency, assess_idx, trial, tmpinputs,
                  lesion_number, sequenceAssessment, ncomparetrials, overallperf, lesionperf, n_sequences,
                  overallcomparisons, aggregateLesionPerf, aggregatePerf,
                  allLesionAssessments>>

(* The guard without its test for NaN.                                     *)
Qualifies_AnyCompare(label) ==
    FirstOfBatch.trialtypeinput[item_idx + 1] = 1

Qualifies(label) ==
    label # NaN /\ FirstOfBatch.trialtypeinput[item_idx + 1] = 1

(* Lines 118-154: a batch is read, its inputs are built, lesioned at       *)
(* random, and the hidden state is reset or carried over.                  *)
TrainBatch ==
    /\ pc = "batch" /\ fn = "recurrent_train"
    /\ batch_idx < Len(loader)
    /\ \E rec \in TrainLesionRecords(Batch) :
         /\ lesionRecord' = rec
         /\ recurrentinputs' =
                [i \in 1..sequenceLength |-> InputX(Batch, i, rec[i] = 1)]
    /\ hidden' = StartHidden
    /\ loss' = << >>
    /\ item_idx' = 0
    /\ pc' = "step"
    /\ UNCHANGED <<args, dataRest, orchVars, actVars, fn, network, loader, weights, batch_idx,
                   latentstate, train_loss, test_loss, correct,
                   trials_counter, all_trials_counter, ref_Value,
                   trials_file, engineLocals, calls, result>>

(* Lines 157-178: one step of the recurrence.  With more than one sequence *)
(* in the batch BCELoss gets a target of another shape than its input,     *)
(* which raises ValueError or broadcasts, depending on the torch release.  *)
TrainStep ==
    /\ pc = "step" /\ fn = "recurrent_train"
    /\ LET x == recurrentinputs[item_idx + 1]
           hin == AddNoise(hidden)
           hout == OneStepRNN(x, hin)
       IN /\ hidden' = hout
          /\ latentstate' = IF item_idx = sequenceLength - 2
                              THEN hout ELSE latentstate
          /\ calls' = Append(calls, Call(x, hin, hout))
    /\ \E label \in LabelsRead, raises \in BOOLEAN :
         IF Qualifies(label) /\ args.batch_size > 1 /\ raises
           THEN /\ pc' = "error" /\ result' = Raised("ValueError")
                /\ UNCHANGED <<loss, correct, trials_counter,
                               all_trials_counter, item_idx>>
           ELSE /\ IF Qualifies(label)
                     THEN /\ loss' = Append(loss, <<batch_idx, item_idx>>)
                          /\ correct' =
                               correct + answer_correct(
                                   Predict(recurrentinputs[item_idx + 1],
                                           AddNoise(hidden)), label)
                          /\ trials_counter' = trials_counter + 1
                     ELSE UNCHANGED <<loss, correct, trials_counter>>
                /\ all_trials_counter' = all_trials_counter + 1
                /\ item_idx' = item_idx + 1
                /\ pc' = IF item_idx + 1 = sequenceLength
                           THEN "update" ELSE "step"
                /\ UNCHANGED result
    /\ UNCHANGED <<args, dataRest, orchVars, actVars, fn, network, loader, weights, batch_idx,
                   recurrentinputs, lesionRecord, train_loss, test_loss,
                   ref_Value, trials_file, engineLocals>>

(* Lines 181-197: loss.backward() and optimizer.step().  A batch without   *)
(* a qualifying trial leaves loss the integer 0, which has no backward.    *)
TrainUpdate ==
    /\ pc = "update" /\ fn = "recurrent_train"
    /\ IF loss = << >>
         THEN /\ pc' = "error" /\ result' = Raised("AttributeError")
              /\ UNCHANGED <<weights, train_loss, batch_idx>>
         ELSE /\ weights' = weights + 1
              /\ train_loss' = train_loss \o loss
              /\ batch_idx' = batch_idx + 1
              /\ pc' = "batch"
              /\ UNCHANGED result
    /\ UNCHANGED <<args, dataRest, orchVars, actVars, fn, network, loader, item_idx, recurrentinputs,
                   lesionRecord, hidden, latentstate, loss, test_loss,
                   correct, trials_counter, all_trials_counter, ref_Value,
                   trials_file, engineLocals, calls>>

(* Lines 206-214: the returned loss and accuracy, as fractions.            *)
TrainReturn ==
    /\ pc = "batch" /\ fn = "recurrent_train"
    /\ batch_idx = Len(loader)
    /\ IF trials_counter = 0
         THEN pc' = "error" /\ result' = Raised("ZeroDivisionError")
         ELSE /\ pc' = "returned"
              /\ result' = Returned([loss |-> <<train_loss, trials_counter>>,
                                     accuracy |-> <<100 * correct,
                                                    trials_counter>>])
    /\ UNCHANGED <<args, dataRest, orchVars, actVars, engineLocals, fn, network, loader, weights,
                   batch_idx, item_idx, recurrentinputs, lesionRecord,
                   hidden, latentstate, loss, train_loss, test_loss,
                   correct, trials_counter, all_trials_counter, ref_Value,
                   trials_file, calls>>

(***************************************************************************)
(* recurrent_test (lines 217-330).                                         *)
(***************************************************************************)
Line(kind, values) == [kind |-> kind, values |-> values]

(* Lines 233-256: a batch is read and its inputs are built.                *)
TestBatch ==
    /\ pc = "batch" /\ fn = "recurrent_test"
    /\ batch_idx < Len(loader)
    /\ recurrentinputs' =
           [i \in 1..sequenceLength |-> InputX(Batch, i, FALSE)]
    /\ hidden' = StartHidden
    /\ ref_Value' = NaN
    /\ item_idx' = 0
    /\ pc' = "step"
    /\ UNCHANGED <<args, dataRest, orchVars, actVars, engineLocals, fn, network, loader, weights,
                   batch_idx, lesionRecord, latentstate, loss, train_loss,
                   test_loss, correct, trials_counter, all_trials_counter,
                   trials_file, calls, result>>

(* hidden.add_(noise) works in place: it also changes latentstate while    *)
(* hidden is the same tensor, which it is on the first step of a batch     *)
(* that carried the state over and on the step after the detach().         *)
SharesStorage ==
    \/ item_idx = 0 /\ args.retain_hidden_state
    \/ item_idx > 0 /\ item_idx - 1 = sequenceLength - 2

(* Lines 257-316: one step of the recurrence and its line of the audit.    *)
(* With more than one sequence in the batch a qualifying trial ends in     *)
(* ValueError (BCELoss, see TrainStep) or, past it, in RuntimeError: the   *)
(* truth value of np.squeeze(output) > 0.5 is ambiguous.                   *)
TestStep ==
    /\ pc = "step" /\ fn = "recurrent_test"
    /\ LET x == recurrentinputs[item_idx + 1]
           hin == AddNoise(hidden)
           hout == OneStepRNN(x, hin)
           kept == IF SharesStorage THEN AddNoise(latentstate)
                   ELSE latentstate
       IN /\ hidden' = hout
          /\ latentstate' = IF item_idx = sequenceLength - 2
                              THEN hout ELSE kept
          /\ calls' = Append(calls, Call(x, hin, hout))
          /\ \E label \in LabelsRead, raises \in BOOLEAN :
               LET pred == Predict(x, hin)
                   answer == answer_correct(pred, label)
                   judge_value ==
                       turn_one_hot_to_integer(StimulusSegment(x[1]))
                   model_guess == pred[1]
                   misclassified ==
                       \/ model_guess # label /\ answer = 1
                       \/ model_guess = label /\ answer = 0
                   line == Line("trial", <<judge_value, ref_Value,
                                           model_guess, label, answer>>)
               IN IF Qualifies(label) /\ args.batch_size > 1
                    THEN /\ pc' = "error"
                         /\ IF raises
                              THEN /\ result' = Raised("ValueError")
                                   /\ UNCHANGED <<test_loss, correct>>
                              ELSE /\ result' = Raised("RuntimeError")
                                   /\ test_loss' =
                                        Append(test_loss,
                                               <<batch_idx, item_idx>>)
                                   /\ correct' = correct + answer
                         /\ UNCHANGED <<trials_counter, ref_Value,
                                        trials_file, item_idx, batch_idx>>
                    ELSE /\ IF Qualifies(label)
                              THEN /\ test_loss' =
                                        Append(test_loss,
                                               <<batch_idx, item_idx>>)
                                   /\ correct' = correct + answer
                                   /\ trials_file' =
                                        trials_file \o <<line>> \o
                                        (IF misclassified
                                           THEN <<Line("Misclassified",
                                                       << >>)>>
                                           ELSE << >>)
                                   /\ ref_Value' = judge_value
                                   /\ trials_counter' = trials_counter + 1
                              ELSE UNCHANGED <<test_loss, correct,
                                               trials_file, ref_Value,
                                               trials_counter>>
                         /\ item_idx' = item_idx + 1
                         /\ IF item_idx + 1 = sequenceLength
                              THEN pc' = "batch" /\ batch_idx' = batch_idx + 1
                              ELSE pc' = "step" /\ UNCHANGED batch_idx
                         /\ UNCHANGED result
    /\ UNCHANGED <<args, dataRest, orchVars, actVars, engineLocals, fn, network, loader, weights,
                   recurrentinputs, lesionRecord, loss, train_loss,
                   all_trials_counter>>

(* Lines 322-330: the returned loss and accuracy and the last audit line.  *)
(* recurrent_test as it would be if it stepped the optimizer on return.    *)
TestReturn_Stepping ==
    /\ pc = "batch" /\ fn = "recurrent_test"
    /\ batch_idx = Len(loader)
    /\ trials_counter > 0
    /\ pc' = "returned"
    /\ weights' = weights + 1
    /\ trials_file' =
           Append(trials_file,
                  Line("Accuracy", <<100 * correct, trials_counter>>))
    /\ result' = Returned([loss |-> <<test_loss, trials_counter>>,
                           accuracy |-> <<100 * correct, trials_counter>>])
    /\ UNCHANGED <<args, dataRest, orchVars, actVars, engineLocals, fn,
                   network, loader, batch_idx, item_idx, recurrentinputs,
                   lesionRecord, hidden, latentstate, loss, train_loss,
                   test_loss, correct, trials_counter, all_trials_counter,
                   ref_Value, calls>>

TestReturn ==
    /\ pc = "batch" /\ fn = "recurrent_test"
    /\ batch_idx = Len(loader)
    /\ IF trials_counter = 0
         THEN /\ pc' = "error" /\ result' = Raised("ZeroDivisionError")
              /\ UNCHANGED trials_file
         ELSE /\ pc' = "returned"
              /\ trials_file' =
                   Append(trials_file,
                          Line("Accuracy", <<100 * correct, trials_counter>>))
              /\ result' = Returned([loss |-> <<test_loss, trials_counter>>,
                                     accuracy |-> <<100 * correct,
                                                    trials_counter>>])
    /\ UNCHANGED <<args, dataRest, orchVars, actVars, engineLocals, fn, network, loader, weights,
                   batch_idx, item_idx, recurrentinputs, lesionRecord,
                   hidden, latentstate, loss, train_loss, test_loss,
                   correct, trials_counter, all_trials_counter, ref_Value,
                   calls>>

(***************************************************************************)
(* recurrent_lesion_test (lines 349-475).                                  *)
(***************************************************************************)
lesionAggregates == <<n_sequences, overallcomparisons, aggregateLesionPerf,
                      aggregatePerf, allLesionAssessments>>

(* Lines 369-385: a batch is read and its inputs are built.                *)
LesionBatch ==
    /\ pc = "batch" /\ fn = "recurrent_lesion_test"
    /\ batch_idx < Len(loader)
    /\ recurrentinputs' =
           [i \in 1..sequenceLength |-> InputX(Batch, i, FALSE)]
    /\ sequenceAssessment' = << >>
    /\ assess_idx' = 0
    /\ pc' = "assess"
    /\ UNCHANGED <<args, dataRest, orchVars, actVars, fn, network, loader, weights, batch_idx, item_idx,
                   lesionRecord, hidden, latentstate, loss, train_loss,
                   test_loss, correct, trials_counter, all_trials_counter,
                   ref_Value, trials_file, whichLesion, lesionFrequency,
                   trial, tmpinputs, lesion_number, ncomparetrials,
                   overallperf, lesionperf, lesionAggregates, calls, result>>

(* Line 399: the position is an assessment trial.                          *)
IsAssessment(idx) == FirstOfBatch.trialtypeinput[idx + 1] = 1 /\ idx > 0

(***************************************************************************)
(* Lines 402-412: the lesion records an assessment at idx may end up with  *)
(* (positions counted from 1): the compare trial nearest before idx is     *)
(* marked, every other compare trial before idx is marked when             *)
(* random.random() < lesionFrequency, and nothing else is.                 *)
(***************************************************************************)
LesionRecords_NearestByFrequency(idx) ==
    LET types == FirstOfBatch.trialtypeinput
        earlier == {j \in 1..idx : types[j] = 1}
    IN { rec \in [1..sequenceLength -> {0, 1}] :
           \A j \in 1..sequenceLength :
             IF j \notin earlier THEN rec[j] = 0
             ELSE /\ lesionFrequency = 0 => rec[j] = 0
                  /\ lesionFrequency = 100 => rec[j] = 1 }

LesionRecords(idx) ==
    LET types == FirstOfBatch.trialtypeinput
        earlier == {j \in 1..idx : types[j] = 1}
        nearest == CHOOSE j \in earlier : \A k \in earlier : k <= j
    IN { rec \in [1..sequenceLength -> {0, 1}] :
           \A j \in 1..sequenceLength :
             IF j \notin earlier THEN rec[j] = 0
             ELSE IF j = nearest THEN rec[j] = 1
             ELSE /\ lesionFrequency = 0 => rec[j] = 0
                  /\ lesionFrequency = 100 => rec[j] = 1 }

(***************************************************************************)
(* Lines 388-418: the head of the loop over assess_idx.  The lesion record *)
(* is reset, the hidden state is reset or taken from latentstate, and for  *)
(* an assessment trial the lesions are drawn and the inputs are copied.    *)
(* With more than one sequence in the batch the truth value of             *)
(* trialtype[:,assess_idx]==1 is ambiguous: RuntimeError.                  *)
(***************************************************************************)
LesionAssess ==
    /\ pc = "assess" /\ fn = "recurrent_lesion_test"
    /\ hidden' = StartHidden
    /\ IF args.batch_size > 1
         THEN /\ pc' = "error" /\ result' = Raised("RuntimeError")
              /\ lesionRecord' = ZeroVec(sequenceLength)
              /\ UNCHANGED <<tmpinputs, overallperf, ncomparetrials, trial>>
         ELSE IF IsAssessment(assess_idx)
           THEN /\ lesionRecord' \in LesionRecords(assess_idx)
                /\ tmpinputs' = recurrentinputs
                /\ overallperf' = 0 /\ ncomparetrials' = 0
                /\ trial' = 0
                /\ pc' = "trial"
                /\ UNCHANGED result
           ELSE /\ lesionRecord' = ZeroVec(sequenceLength)
                /\ pc' = "assess_end"
                /\ UNCHANGED <<tmpinputs, overallperf, ncomparetrials, trial,
                               result>>
    /\ UNCHANGED <<args, dataRest, orchVars, actVars, fn, network, loader, weights, batch_idx, item_idx,
                   recurrentinputs, latentstate, loss, train_loss, test_loss,
                   correct, trials_counter, all_trials_counter, ref_Value,
                   trials_file, whichLesion, lesionFrequency, assess_idx,
                   lesion_number, sequenceAssessment, lesionperf,
                   lesionAggregates, calls>>

(* Lines 423-428: the lesion of a flagged input, on the first sequence of  *)
(* the batch: the number when whichLesion is 'number', else the context.   *)
(* The variant zeroes both segments.                                       *)
Lesioned_Both(x) ==
    [x EXCEPT ![1] = ZeroVec(TOTALMAXNUM) \o ZeroVec(NCONTEXTS)
                     \o TypeSegment(x[1])]

Lesioned(x) ==
    IF whichLesion = "number"
      THEN [x EXCEPT ![1] = ZeroVec(TOTALMAXNUM) \o ContextSegment(x[1])
                            \o TypeSegment(x[1])]
      ELSE [x EXCEPT ![1] = StimulusSegment(x[1]) \o ZeroVec(NCONTEXTS)
                            \o TypeSegment(x[1])]

(* hidden.add_(noise) on a hidden state that is latentstate itself.        *)
NoiseOnShared(shared) ==
    IF shared THEN AddNoise(latentstate) ELSE latentstate

(* Lines 420-444: one trial of the pass up to the assessment trial.        *)
LesionTrial ==
    /\ pc = "trial" /\ fn = "recurrent_lesion_test"
    /\ LET flagged == lesionRecord[trial + 1] = 1
           x == IF flagged THEN Lesioned(tmpinputs[trial + 1])
                ELSE tmpinputs[trial + 1]
           hin == AddNoise(hidden)
           hout == OneStepRNN(x, hin)
           label == FirstOfBatch.label[trial + 1]
           compare == FirstOfBatch.trialtypeinput[trial + 1] = 1
       IN /\ tmpinputs' = [tmpinputs EXCEPT ![trial + 1] = x]
          /\ lesion_number' =
                 IF flagged
                   THEN turn_one_hot_to_integer(
                            StimulusSegment(tmpinputs[trial + 1][1]))
                   ELSE lesion_number
          /\ hidden' = hout
          /\ latentstate' =
                 NoiseOnShared(trial = 0 /\ args.retain_hidden_state)
          /\ calls' = Append(calls, [Call(x, hin, hout) EXCEPT
                                        !.item_idx = trial])
          /\ LET pred == Predict(x, hin)
             IN IF compare
                 THEN /\ ncomparetrials' = ncomparetrials + 1
                      /\ overallperf' =
                             overallperf + answer_correct(pred, label)
                      /\ overallcomparisons' = overallcomparisons + 1
                      /\ lesionperf' = IF trial = assess_idx
                                         THEN answer_correct(pred, label)
                                         ELSE lesionperf
                 ELSE UNCHANGED <<ncomparetrials, overallperf,
                                  overallcomparisons, lesionperf>>
    /\ trial' = trial + 1
    /\ pc' = IF trial = assess_idx THEN "assess_end" ELSE "trial"
    /\ UNCHANGED <<args, dataRest, orchVars, actVars, fn, network, loader, weights, batch_idx, item_idx,
                   recurrentinputs, lesionRecord, loss, train_loss,
                   test_loss, correct, trials_counter, all_trials_counter,
                   ref_Value, trials_file, whichLesion, lesionFrequency,
                   assess_idx, sequenceAssessment, n_sequences,
                   aggregateLesionPerf, aggregatePerf, allLesionAssessments,
                   result>>

(***************************************************************************)
(* Lines 333-346: the local and global baseline policies.  The means are   *)
(* halves, so numbers are compared doubled: localmedians holds the means   *)
(* of the full, low and high range and is indexed by context - 1.          *)
(***************************************************************************)
TwiceMean(lo, hi) == lo + hi
localmedians == <<TwiceMean(FULLR_LLIM, FULLR_ULIM),
                  TwiceMean(LOWR_LLIM, LOWR_ULIM),
                  TwiceMean(HIGHR_LLIM, HIGHR_ULIM)>>
TwiceGlobalMean == TwiceMean(FULLR_LLIM, FULLR_ULIM)

get_local_model_response(number, ctx, label) ==
    LET idx == IF ctx - 1 < 0 THEN ctx - 1 + Len(localmedians) ELSE ctx - 1
        response == IF 2 * number > localmedians[idx + 1] THEN 1 ELSE 0
    IN IF response = label THEN 1 ELSE 0

get_global_model_response(number, ctx, label) ==
    LET response == IF 2 * number > TwiceGlobalMean THEN 1 ELSE 0
    IN IF response = label THEN 1 ELSE 0

(* model.get_activations(x, h): the activations of a forward pass.         *)
Activations(x, h) == <<weights, x, h>>

(* Lines 460-463: the inputs 0..last of tmpinputs are passed through the   *)
(* network once more, starting from h; the calls this makes.               *)
RECURSIVE RelayCalls(_, _, _)
RelayCalls(h, i, last) ==
    IF i > last THEN << >>
    ELSE LET hin == AddNoise(h)
             hout == OneStepRNN(tmpinputs[i + 1], hin)
         IN <<[batch_idx |-> batch_idx, item_idx |-> i,
               input |-> tmpinputs[i + 1],
               hidden_in |-> hin, hidden_out |-> hout]>>
            \o RelayCalls(hout, i + 1, last)

(***************************************************************************)
(* Lines 446-466: the end of the loop body.  An assessment is recorded and *)
(* added to the aggregates; at assess_idx = sequenceLength-2 the sequence  *)
(* is passed through the network again to get the hidden state for the     *)
(* next sequence (tmpinputs is the copy made by the latest assessment: a   *)
(* NameError when there was none).                                         *)
(***************************************************************************)
LesionAssessEnd ==
    /\ pc = "assess_end" /\ fn = "recurrent_lesion_test"
    /\ LET assessed == IsAssessment(assess_idx)
           label == FirstOfBatch.label[assess_idx + 1]
           assess_number ==
               turn_one_hot_to_integer(FirstOfBatch.input[assess_idx + 1])
           ctx == turn_one_hot_to_integer(
                      FirstOfBatch.context[assess_idx + 1])
           mydict ==
               [assess_number |-> assess_number,
                lesion_number |-> lesion_number,
                lesion_perf |-> lesionperf,
                overall_perf |-> overallperf,
                desired_lesionF |-> lesionFrequency,
                underlying_context |-> ctx,
                assess_idx |-> assess_idx,
                compare_idx |-> ncomparetrials,
                localmodel_perf |->
                    get_local_model_response(assess_number, ctx, label),
                globalmodel_perf |->
                    get_global_model_response(assess_number, ctx, label),
                post_lesion_activations |->
                    Activations(tmpinputs[assess_idx + 1], hidden)]
           assessments == IF assessed
                            THEN Append(sequenceAssessment, mydict)
                            ELSE sequenceAssessment
           relay == assess_idx = sequenceLength - 2
           relayed == RelayCalls(hidden, 0, assess_idx)
       IN /\ sequenceAssessment' = assessments
          /\ IF assessed
               THEN /\ aggregateLesionPerf' = aggregateLesionPerf + lesionperf
                    /\ aggregatePerf' = aggregatePerf + overallperf
                    /\ n_sequences' = n_sequences + 1
               ELSE UNCHANGED <<aggregateLesionPerf, aggregatePerf,
                                n_sequences>>
          /\ IF relay /\ tmpinputs = Unbound
               THEN /\ pc' = "error" /\ result' = Raised("NameError")
                    /\ UNCHANGED <<hidden, latentstate, calls, assess_idx,
                                   batch_idx, allLesionAssessments>>
               ELSE /\ IF relay
                         THEN /\ calls' = calls \o relayed
                              /\ hidden' = relayed[Len(relayed)].hidden_out
                              /\ latentstate' = hidden'
                         ELSE UNCHANGED <<calls, hidden, latentstate>>
                    /\ assess_idx' = assess_idx + 1
                    /\ IF assess_idx + 1 = sequenceLength
                         THEN /\ allLesionAssessments' =
                                     Append(allLesionAssessments, assessments)
                              /\ batch_idx' = batch_idx + 1
                              /\ pc' = "batch"
                         ELSE /\ pc' = "assess"
                              /\ UNCHANGED <<allLesionAssessments, batch_idx>>
                    /\ UNCHANGED result
    /\ UNCHANGED <<args, dataRest, orchVars, actVars, fn, network, loader, weights, item_idx,
                   recurrentinputs, lesionRecord, loss, train_loss,
                   test_loss, correct, trials_counter, all_trials_counter,
                   ref_Value, trials_file, whichLesion, lesionFrequency,
                   trial, tmpinputs, lesion_number, ncomparetrials,
                   overallperf, lesionperf, overallcomparisons>>

(* Lines 468-475: the summary statistics, as fractions.                    *)
LesionReturn ==
    /\ pc = "batch" /\ fn = "recurrent_lesion_test"
    /\ batch_idx = Len(loader)
    /\ IF n_sequences = 0 \/ overallcomparisons = 0
         THEN pc' = "error" /\ result' = Raised("ZeroDivisionError")
         ELSE /\ pc' = "returned"
              /\ result' =
                   Returned([allLesionAssessments |-> allLesionAssessments,
                             summarylesionperf |->
                                 <<100 * aggregateLesionPerf, n_sequences>>,
                             summaryperf |->
                                 <<100 * aggregatePerf, overallcomparisons>>])
    /\ UNCHANGED <<args, dataRest, orchVars, actVars, engineLocals, fn, network, loader, weights,
                   batch_idx, item_idx, recurrentinputs, lesionRecord,
                   hidden, latentstate, loss, train_loss, test_loss,
                   correct, trials_counter, all_trials_counter, ref_Value,
                   trials_file, calls>>

(***************************************************************************)
(* The engine's specification: one call of one of the functions, on any    *)
(* of the loaders, under any of the hyperparameter settings.               *)
(***************************************************************************)
DataIdle ==
    /\ phase = 0 /\ block = 0 /\ sample = 0 /\ item = 0
    /\ context = None /\ randNumDistribution = << >>
    /\ firstTrialInContext = FALSE
    /\ type_sequence = << >> /\ trialtypeinput = << >>
    /\ input_sequence = << >> /\ contextsequence = << >>
    /\ contextinputsequence = << >>
    /\ previousFillerNum = NoVec /\ previousTrialtype = NoType
    /\ refValue = None /\ judgementValue = None
    /\ target = << >> /\ allJValues = << >> /\ allRValues = << >>
    /\ prevLastCompare = 0

EngineStart ==
    /\ DataIdle
    /\ network \in Networks
    /\ pc = "batch"
    /\ weights = 0 /\ batch_idx = 0 /\ item_idx = 0
    /\ recurrentinputs = << >> /\ lesionRecord = << >>
    /\ hidden = Zeros /\ latentstate = Zeros
    /\ loss = << >> /\ train_loss = << >> /\ test_loss = << >>
    /\ correct = 0 /\ trials_counter = 0 /\ all_trials_counter = 0
    /\ ref_Value = NaN /\ trials_file = << >>
    /\ assess_idx = 0 /\ trial = 0 /\ tmpinputs = Unbound
    /\ lesion_number = UnboundNumber /\ sequenceAssessment = << >>
    /\ ncomparetrials = 0 /\ overallperf = 0 /\ lesionperf = UnboundNumber
    /\ n_sequences = 0 /\ overallcomparisons = 0
    /\ aggregateLesionPerf = 0 /\ aggregatePerf = 0
    /\ allLesionAssessments = << >>
    /\ calls = << >> /\ result = NoResult

InitEngine ==
    /\ args \in EngineConfigs
    /\ fn \in {"recurrent_train", "recurrent_test"}
    /\ whichLesion = NoType /\ lesionFrequency = 0
    /\ loader \in Loaders(args)
    /\ EngineStart /\ OrchIdle /\ ActIdle

NextEngine ==
    \/ TrainBatch \/ TrainStep \/ TrainUpdate \/ TrainReturn
    \/ TestBatch \/ TestStep \/ TestReturn

SpecEngine == InitEngine /\ [][NextEngine]_vars

(***************************************************************************)
(* The lesion test's specification: one call of recurrent_lesion_test,     *)
(* lesioning the number or the context, never, sometimes or always.        *)
(***************************************************************************)
InitLesion ==
    /\ args \in LesionConfigs
    /\ fn = "recurrent_lesion_test"
    /\ whichLesion \in {"number", "context"}
    /\ lesionFrequency \in {0, 50, 100}
    /\ loader \in LesionLoaders(args)
    /\ EngineStart /\ OrchIdle /\ ActIdle

NextLesion ==
    \/ LesionBatch \/ LesionAssess \/ LesionTrial \/ LesionAssessEnd
    \/ LesionReturn

SpecLesion == InitLesion /\ [][NextLesion]_vars

(***************************************************************************)
(* train_recurrent_network (lines 972-1150), for one pair of the           *)
(* hyperparameter product: the baseline measures, then the short           *)
(* curriculum (train until the standard train accuracy reaches 90) or the  *)
(* long one (n_epochs epochs), then the training record.  Its calls of     *)
(* recurrent_train and recurrent_test are the engine's actions on the      *)
(* same model: weights and network persist from call to call.              *)
(***************************************************************************)
MaxEpochs == 2
NTestBatches == 1

TrainLoaders(a) == Loaders(a)
TestLoaders(a) == [1..NTestBatches -> [1..a.batch_size -> Dataset(a)]]

OrchConfigs ==
    { Hyper(BPTT_len, TRUE, FALSE, "true", 1, TRUE, 0, FALSE, 10),
      Hyper(BPTT_len, FALSE, FALSE, "true", 1, TRUE, 0, FALSE, 0),
      Hyper(BPTT_len, FALSE, TRUE, "true", 1, TRUE, 0, FALSE, 0) }

(* Entering a call of recurrent_train or recurrent_test: its locals are    *)
(* fresh, the model is the one the previous calls left.                    *)
Invoke(f, set, currentFiles) ==
    /\ fn' = f
    /\ loader' = IF set = "train" THEN trainloader ELSE testloader
    /\ trials_file' = currentFiles[set]
    /\ pc' = "batch"
    /\ batch_idx' = 0 /\ item_idx' = 0
    /\ recurrentinputs' = << >> /\ lesionRecord' = << >>
    /\ hidden' = Zeros /\ latentstate' = Zeros
    /\ loss' = << >> /\ train_loss' = << >> /\ test_loss' = << >>
    /\ correct' = 0 /\ trials_counter' = 0 /\ all_trials_counter' = 0
    /\ ref_Value' = NaN
    /\ calls' = << >> /\ result' = NoResult
    /\ UNCHANGED <<args, dataRest, actVars, engineLocals, network, weights,
                   trainloader, testloader, n_epochs>>

(* The audit files once the call that just returned has written its own.   *)
FilesAfter(set) == [files EXCEPT ![set] = trials_file]
WriteBoth(f, line) == [train |-> Append(f.train, line),
                       test |-> Append(f.test, line)]

(* Line 1071: the condition of the short curriculum's loop, on an accuracy *)
(* held as the fraction <<100 * correct, trials_counter>>.                 *)
NotConverged_BelowHalf(accuracy) == accuracy[1] < 50 * accuracy[2]
NotConverged(accuracy) == accuracy[1] < 90 * accuracy[2]

(* The record without the hyperparameters.                                 *)
TrainingRecord_WithoutArgs(training, testing) ==
    [trainingPerformance |-> training, testPerformance |-> testing]

(* Lines 1139-1147: the training record.                                   *)
TrainingRecord(training, testing) ==
    [trainingPerformance |-> training, testPerformance |-> testing,
     args |-> args]

(* Lines 1044-1055: the baseline measure on the training set.              *)
OrchBaseline ==
    /\ stage = "start"
    /\ stage' = "base_train"
    /\ Invoke("recurrent_test", "train", files)
    /\ UNCHANGED <<epoch, standard_train_accuracy, train_perf, test_perf,
                   trainingPerformance, testPerformance, files, writer,
                   record>>

(* Lines 1055-1057: the baseline measure on the test set.                  *)
OrchBaselineTest ==
    /\ stage = "base_train" /\ pc = "returned"
    /\ trainingPerformance' = <<result.value.accuracy>>
    /\ files' = FilesAfter("train")
    /\ stage' = "base_test"
    /\ Invoke("recurrent_test", "test", files')
    /\ UNCHANGED <<epoch, standard_train_accuracy, train_perf, test_perf,
                   testPerformance, writer, record>>

(* Lines 1139-1150: the record is written and the model returned.          *)
Finish(e, f, training, testing) ==
    /\ stage' = "done"
    /\ epoch' = e /\ files' = f
    /\ record' = TrainingRecord(training, testing)
    /\ UNCHANGED <<dataVars, engineVars, actVars, trainloader, testloader,
                   n_epochs>>

(* Line 1071, the head of the short curriculum's loop, and line 1074.      *)
(* The model runs at most MaxEpochs epochs.                                *)
ShortLoop(accuracy, e, f, training, testing) ==
    IF NotConverged(accuracy)
      THEN /\ e < MaxEpochs
           /\ stage' = "train"
           /\ epoch' = e /\ files' = f
           /\ Invoke("recurrent_train", "train", f)
           /\ UNCHANGED record
      ELSE Finish(e, f, training, testing)

(* Lines 1096-1102, the head of the long curriculum's loop: e is the next  *)
(* value of range(1, n_epochs + 1).                                        *)
LongLoop(e, f, training, testing) ==
    IF e <= n_epochs
      THEN /\ stage' = "train"
           /\ epoch' = e
           /\ files' = WriteBoth(f, Line("Epoch", <<e>>))
           /\ Invoke("recurrent_train", "train", files')
           /\ UNCHANGED record
      ELSE Finish(e - 1, f, training, testing)

(* Lines 1057-1074 and 1091-1102: the baselines are kept and the           *)
(* curriculum begins.                                                      *)
OrchBeginTraining ==
    /\ stage = "base_test" /\ pc = "returned"
    /\ testPerformance' = <<result.value.accuracy>>
    /\ standard_train_accuracy' = <<0, 1>>
    /\ IF ~args.train_long
         THEN ShortLoop(standard_train_accuracy', 0,
                        WriteBoth(FilesAfter("test"),
                                  Line("Training short...", << >>)),
                        trainingPerformance, testPerformance')
         ELSE LongLoop(1, WriteBoth(FilesAfter("test"),
                                    Line("Training long...", << >>)),
                       trainingPerformance, testPerformance')
    /\ UNCHANGED <<train_perf, test_perf, trainingPerformance, writer>>

(* Lines 1074-1078 and 1102-1106: the epoch's training returned; the       *)
(* network is assessed on the training set.                                *)
OrchAssessTrain ==
    /\ stage = "train" /\ pc = "returned"
    /\ standard_train_accuracy' = result.value.accuracy
    /\ train_perf' = <<result.value.loss, result.value.accuracy>>
    /\ stage' = "fair"
    /\ Invoke("recurrent_test", "train", files)
    /\ UNCHANGED <<epoch, test_perf, trainingPerformance, testPerformance,
                   files, writer, record>>

(* Lines 1078-1080 and 1106-1108: then on the test set.                    *)
OrchAssessTest ==
    /\ stage = "fair" /\ pc = "returned"
    /\ train_perf' = train_perf \o <<result.value.loss,
                                     result.value.accuracy>>
    /\ files' = FilesAfter("train")
    /\ stage' = "test"
    /\ Invoke("recurrent_test", "test", files')
    /\ UNCHANGED <<epoch, standard_train_accuracy, test_perf,
                   trainingPerformance, testPerformance, writer, record>>

(* Lines 1083-1090 and 1111-1117: the epoch is logged, and the loop is     *)
(* left or entered again.                                                  *)
OrchEndEpoch ==
    /\ stage = "test" /\ pc = "returned"
    /\ test_perf' = <<result.value.loss, result.value.accuracy>>
    /\ trainingPerformance' =
           Append(trainingPerformance, standard_train_accuracy)
    /\ testPerformance' = Append(testPerformance, result.value.accuracy)
    /\ LET logged == IF args.train_long THEN epoch ELSE epoch + 1 IN
         /\ writer' = Append(writer, [epoch |-> logged,
                                      train_perf |-> train_perf,
                                      test_perf |-> test_perf'])
         /\ IF ~args.train_long
              THEN ShortLoop(standard_train_accuracy, logged,
                             FilesAfter("test"),
                             trainingPerformance', testPerformance')
              ELSE LongLoop(logged + 1, FilesAfter("test"),
                            trainingPerformance', testPerformance')
    /\ UNCHANGED <<standard_train_accuracy, train_perf>>

(* An exception of recurrent_train or recurrent_test is not caught: it     *)
(* ends train_recurrent_network, and no record is written.                 *)
OrchRaise ==
    /\ stage \in {"base_train", "base_test", "train", "fair", "test"}
    /\ pc = "error"
    /\ stage' = "raised"
    /\ UNCHANGED <<dataVars, engineVars, actVars, trainloader, testloader,
                   n_epochs, epoch, standard_train_accuracy, train_perf, test_perf,
                   trainingPerformance, testPerformance, files, writer,
                   record>>

InitOrch ==
    /\ args \in OrchConfigs
    /\ DataIdle
    /\ network \in Networks
    /\ trainloader \in TrainLoaders(args)
    /\ testloader \in TestLoaders(args)
    /\ n_epochs \in 0..MaxEpochs
    /\ stage = "start" /\ epoch = 0
    /\ standard_train_accuracy = << >>
    /\ train_perf = << >> /\ test_perf = << >>
    /\ trainingPerformance = << >> /\ testPerformance = << >>
    /\ files = [train |-> << >>, test |-> << >>]
    /\ writer = << >> /\ record = << >>
    /\ fn = NoType /\ loader = << >> /\ pc = "idle"
    /\ whichLesion = NoType /\ lesionFrequency = 0
    /\ weights = 0 /\ batch_idx = 0 /\ item_idx = 0
    /\ recurrentinputs = << >> /\ lesionRecord = << >>
    /\ hidden = Zeros /\ latentstate = Zeros
    /\ loss = << >> /\ train_loss = << >> /\ test_loss = << >>
    /\ correct = 0 /\ trials_counter = 0 /\ all_trials_counter = 0
    /\ ref_Value = NaN /\ trials_file = << >>
    /\ assess_idx = 0 /\ trial = 0 /\ tmpinputs = Unbound
    /\ lesion_number = UnboundNumber /\ sequenceAssessment = << >>
    /\ ncomparetrials = 0 /\ overallperf = 0 /\ lesionperf = UnboundNumber
    /\ n_sequences = 0 /\ overallcomparisons = 0
    /\ aggregateLesionPerf = 0 /\ aggregatePerf = 0
    /\ allLesionAssessments = << >>
    /\ calls = << >> /\ result = NoResult
    /\ ActIdle

NextOrch ==
    \/ OrchBaseline \/ OrchBaselineTest \/ OrchBeginTraining
    \/ OrchAssessTrain \/ OrchAssessTest \/ OrchEndEpoch \/ OrchRaise
    \/ TrainBatch \/ TrainStep \/ TrainUpdate \/ TrainReturn
    \/ TestBatch \/ TestStep \/ TestReturn

SpecOrch == InitOrch /\ [][NextOrch]_vars

(***************************************************************************)
(* Properties of train_recurrent_network (specification SpecOrch).         *)
(***************************************************************************)
Percent(accuracy) == [atLeast90 |-> accuracy[1] >= 90 * accuracy[2]]
EpochAccuracy(e) == trainingPerformance[e + 1]
AllTrainLabelsOne ==
    \A k \in DOMAIN trainloader :
        LET seq == trainloader[k][1] IN
          /\ \E i \in DOMAIN seq.label :
                 seq.trialtypeinput[i] = 1 /\ seq.label[i] # NaN
          /\ \A i \in DOMAIN seq.label :
                 seq.trialtypeinput[i] = 1 /\ seq.label[i] # NaN
                     => seq.label[i] = 1

(* C9: under the short curriculum (train_long false) a run of              *)
(* train_recurrent_network that completes has trained for at least one     *)
(* epoch, and it stopped exactly after the first epoch whose standard      *)
(* train accuracy was at least 90: every earlier epoch was below 90, the   *)
(* last one is not, and the optimizer stepped once per batch of exactly    *)
(* that many epochs.  While it is still running every finished epoch but   *)
(* the last was below 90.  A network that always answers 0.51 on a         *)
(* training set whose qualifying labels are all 1 stops after one epoch.   *)
C9_ShortCurriculumStopsAtFirstConvergedEpoch ==
    (stage \notin {NoType, "start"} /\ ~args.train_long) =>
        /\ \A e \in 1..(Len(trainingPerformance) - 2) :
               ~Percent(EpochAccuracy(e)).atLeast90
        /\ stage = "done" =>
             /\ epoch >= 1
             /\ Len(trainingPerformance) = epoch + 1
             /\ Len(writer) = epoch
             /\ weights = epoch * Len(trainloader)
             /\ Percent(EpochAccuracy(epoch)).atLeast90
             /\ record.trainingPerformance = trainingPerformance
             /\ (network = "always" /\ AllTrainLabelsOne) => epoch = 1
        /\ stage \in {"train", "fair", "test"} =>
             \A e \in 1..(Len(trainingPerformance) - 1) :
                 ~Percent(EpochAccuracy(e)).atLeast90

(* A completed short run whose first epoch stayed below 90 and whose       *)
(* second epoch reached it.                                                *)
C9_Witness ==
    /\ stage = "done" /\ ~args.train_long
    /\ epoch = 2
    /\ ~Percent(EpochAccuracy(1)).atLeast90
    /\ Percent(EpochAccuracy(2)).atLeast90

(***************************************************************************)
(* Properties of the engine.                                               *)
(***************************************************************************)
TypeAt(k, b, i) == loader[k + 1][b].trialtypeinput[i + 1]
LabelAt(k, i) == loader[k + 1][1].label[i + 1]
LengthOfSequences == Len(loader[1][1].input)

(* C4: in recurrent_train and recurrent_test a step that completes adds    *)
(* one term to the loss, up to batch_size to correct and one to            *)
(* trials_counter if the trial (the batch's first sequence) is a compare   *)
(* trial whose label is not NaN, and leaves all three alone otherwise; in  *)
(* both cases the model is called and the hidden state changes.            *)
C4_AccumulateIffQualifying ==
    [][ (pc = "step" /\ pc' # "error") =>
          LET qualifying == /\ TypeAt(batch_idx, 1, item_idx) = 1
                            /\ LabelAt(batch_idx, item_idx) # NaN
              terms == Len(loss) + Len(test_loss)
          IN /\ Len(calls') = Len(calls) + 1
             /\ hidden' # hidden
             /\ qualifying =>
                  /\ Len(loss') + Len(test_loss') = terms + 1
                  /\ trials_counter' = trials_counter + 1
                  /\ correct' - correct \in 0..args.batch_size
             /\ ~qualifying =>
                  /\ loss' = loss /\ test_loss' = test_loss
                  /\ trials_counter' = trials_counter
                  /\ correct' = correct ]_vars

(* A first batch with fillers is stepped through: every position called   *)
(* the model, and only one of them (a compare trial with a label) counted. *)
C4_Witness ==
    /\ fn = "recurrent_train" /\ pc = "update" /\ batch_idx = 0
    /\ args.include_fillers /\ args.batch_size = 1
    /\ Len(calls) = LengthOfSequences
    /\ trials_counter = 1 /\ Len(loss) = 1 /\ correct = 1
    /\ LabelAt(0, 0) = NaN

(* C5: without noise, the first step of every batch after the first reads *)
(* the hidden state that the step at index L-2 of the batch before         *)
(* returned when retain_hidden_state is set, and the zero state when not;  *)
(* the first batch of a call starts from the zero state.                   *)
C5_HiddenCarriedFromSecondToLast ==
    (args.noise_std = 0 /\ fn \in {"recurrent_train", "recurrent_test"}) =>
      \A n \in 1..Len(calls) :
        calls[n].item_idx = 0 =>
          IF calls[n].batch_idx = 0 \/ ~args.retain_hidden_state
            THEN calls[n].hidden_in = Zeros
            ELSE \E m \in 1..(n - 1) :
                   /\ calls[m].batch_idx = calls[n].batch_idx - 1
                   /\ calls[m].item_idx = LengthOfSequences - 2
                   /\ calls[n].hidden_in = calls[m].hidden_out

C5_Witness ==
    /\ args.noise_std = 0 /\ args.retain_hidden_state
    /\ fn = "recurrent_test"
    /\ \E n \in 1..Len(calls) :
         /\ calls[n].batch_idx = 1 /\ calls[n].item_idx = 0
         /\ Len(calls[n].hidden_in) = LengthOfSequences - 1

(* C6: every filler trial of every sequence of a batch reaches the model   *)
(* with an all-zero context segment.                                       *)
C6_FillerContextZero ==
    \A n \in 1..Len(calls) :
      \A b \in 1..args.batch_size :
        TypeAt(calls[n].batch_idx, b, calls[n].item_idx) = 0 =>
            ContextSegment(calls[n].input[b]) = [k \in 1..NCONTEXTS |-> 0]

(***************************************************************************)
(* Properties of the lesion test.  While an assessment at assess_idx is    *)
(* under way, the last `trial` calls are those of its pass.                *)
(***************************************************************************)
Assessing ==
    /\ fn = "recurrent_lesion_test" /\ pc \in {"trial", "assess_end"}
    /\ args.batch_size = 1
    /\ TypeAt(batch_idx, 1, assess_idx) = 1 /\ assess_idx > 0

FedAt(t) == calls[Len(calls) - trial + t + 1].input[1]

(* What lines 377-385 built for position t of the sequence.                *)
BuiltAt(t) ==
    LET seq == loader[batch_idx + 1][1]
    IN [stimulus |-> seq.input[t + 1],
        context |-> IF seq.trialtypeinput[t + 1] = 0
                      THEN [k \in 1..NCONTEXTS |-> 0]
                      ELSE seq.contextinput[t + 1],
        type |-> <<seq.trialtypeinput[t + 1]>>]

C8_LesionRecordOfAssessment ==
    (fn = "recurrent_lesion_test" /\ pc \in {"trial", "assess_end"}) =>
      LET earlier == {j \in 0..(assess_idx - 1) :
                         TypeAt(batch_idx, 1, j) = 1}
          marked == {j \in 0..(LengthOfSequences - 1) :
                        lesionRecord[j + 1] = 1}
      IN /\ Len(lesionRecord) = LengthOfSequences
         /\ IF Assessing
              THEN /\ marked \subseteq earlier
                   /\ \E j \in marked : \A k \in earlier : k <= j
                   /\ lesionFrequency = 100 => marked = earlier
                   /\ lesionFrequency = 0 => Cardinality(marked) = 1
              ELSE marked = {}

(* An assessment whose record marks the nearest earlier compare trial and  *)
(* one more, and leaves another earlier compare trial unmarked.            *)
C8_Witness ==
    /\ Assessing /\ lesionFrequency = 50
    /\ \E j, k \in 0..(assess_idx - 2) :
         /\ TypeAt(batch_idx, 1, j) = 1 /\ lesionRecord[j + 1] = 1
         /\ TypeAt(batch_idx, 1, k) = 1 /\ lesionRecord[k + 1] = 0
    /\ lesionRecord[assess_idx] = 1

(***************************************************************************)
(* get_activations (lines 554-793): the mean hidden-layer activation of    *)
(* every unique input of the set, and how many instances it had.           *)
(***************************************************************************)
hidden_size == 2

ActivationSeries ==
    { <<2, 3, 2, 3, 2, 3>>, <<3, 7, 7, 6, 2, 2>>, <<6, 8, 7, 5, 1, 2>> }

(* The fc1 layer of OneStepRNN.get_activations(x, hidden) (lines 807-816), *)
(* a deterministic function of the input and the hidden state: one that    *)
(* follows the history, one that follows the stimulus, one that is dead.   *)
fc1_activations(x, h) ==
    [j \in 1..hidden_size |->
        IF network = "varying" THEN Len(h) + j - 1
        ELSE IF network = "always"
               THEN j * turn_one_hot_to_integer(StimulusSegment(x[1]))
        ELSE 0]

(* DataLoader(trainset, batch_size): the set cut into batches.             *)
BatchesOf(set, batch_size) ==
    LET n == (Len(set) + batch_size - 1) \div batch_size IN
      [k \in 1..n |->
          LET first == (k - 1) * batch_size
              size == IF Len(set) - first < batch_size
                        THEN Len(set) - first ELSE batch_size
          IN [b \in 1..size |-> set[first + b]]]

TRIAL_TYPE == IF whichType = "compare" THEN 1 ELSE 0

(* Lines 572-595: the positions <<seq, item_idx>> (from 1) of the set that *)
(* carry a row of trainset_input_n_context, and the row.  inputB is the    *)
(* input of the previous compare trial of the sequence.                    *)
PreviousCompare(seq, i) ==
    LET earlier == {j \in 1..(i - 1) : seq.trialtypeinput[j] = 1}
    IN IF earlier = {} THEN 0
       ELSE CHOOSE j \in earlier : \A k \in earlier : k <= j

HasRow(set, type, p) ==
    LET seq == set[p[1]] IN
      IF type = 1
        THEN seq.trialtypeinput[p[2]] = 1 /\ PreviousCompare(seq, p[2]) > 0
        ELSE seq.trialtypeinput[p[2]] = 0

RowAt(set, type, p) ==
    LET seq == set[p[1]] IN
      IF type = 1
        THEN seq.input[p[2]] \o seq.input[PreviousCompare(seq, p[2])]
             \o seq.context[p[2]]
        ELSE seq.input[p[2]] \o seq.context[p[2]]

RowPositions(set, type) ==
    {p \in (DOMAIN set) \X (1..Len(set[1].input)) : HasRow(set, type, p)}

(* Line 599: np.unique(..., axis=0, return_index=True): the distinct rows  *)
(* in lexicographic order, and where each occurs first.                    *)
LexLess(a, b) ==
    \E i \in 1..Len(a) : a[i] < b[i] /\ \A j \in 1..(i - 1) : a[j] = b[j]

RECURSIVE SortRows(_)
SortRows(rows) ==
    IF rows = {} THEN << >>
    ELSE LET least == CHOOSE r \in rows :
                          \A o \in rows \ {r} : LexLess(r, o)
         IN <<least>> \o SortRows(rows \ {least})

Unique(set, type) ==
    SortRows({RowAt(set, type, p) : p \in RowPositions(set, type)})

FirstOccurrence(set, type, row) ==
    LET same == {p \in RowPositions(set, type) : RowAt(set, type, p) = row}
    IN CHOOSE p \in same :
           \A q \in same : p[1] < q[1] \/ (p[1] = q[1] /\ p[2] <= q[2])

(* Lines 603-612: unique_labels, unique_context, unique_refValue and       *)
(* unique_judgementValue of row number n.                                  *)
UniqueSource(n) ==
    LET p == FirstOccurrence(trainset, TRIAL_TYPE, unique_inputs_n_context[n])
        seq == trainset[p[1]]
    IN [label |-> seq.label[p[2]], context |-> seq.context[p[2]],
        refValue |-> seq.refValue[p[2]],
        judgementValue |-> seq.judgementValue[p[2]]]

actLabels == <<contexts, labels_judgeValues, labels_refValues, MDSlabels,
               time_index>>

(* Lines 563-673: the unique rows, the preallocated arrays (np.empty holds *)
(* whatever was in memory: NoVec, Uninit) and the branch on the network    *)
(* style: without hidden-state retention the recurrent branch reads the    *)
(* names contextrange, Arange and Brange, which nothing defines.           *)
ActUnique ==
    /\ pc = "unique" /\ fn = "get_activations"
    /\ unique_inputs_n_context' = Unique(trainset, TRIAL_TYPE)
    /\ LET rows == DOMAIN unique_inputs_n_context' IN
         /\ activations' = [n \in rows |-> NoVec]
         /\ aggregate_activations' = [n \in rows |-> ZeroVec(hidden_size)]
         /\ counter' = [n \in rows |-> 0]
         /\ contexts' = [n \in rows |-> Uninit]
         /\ labels_judgeValues' = [n \in rows |-> Uninit]
         /\ labels_refValues' = [n \in rows |-> Uninit]
         /\ MDSlabels' = [n \in rows |-> Uninit]
         /\ time_index' = [n \in rows |-> Uninit]
    /\ IF args.retain_hidden_state
         THEN pc' = "batch" /\ UNCHANGED result
         ELSE pc' = "error" /\ result' = Raised("NameError")
    /\ UNCHANGED <<args, dataRest, orchVars, engineLocals, fn, network,
                   loader, weights, batch_idx, item_idx, recurrentinputs,
                   lesionRecord, hidden, latentstate, loss, train_loss,
                   test_loss, correct, trials_counter, all_trials_counter,
                   ref_Value, trials_file, calls, whichType, trainset,
                   index, inputB, stdout>>

(* Lines 675-693: the next batch.  temporal_trialtypes[batch_idx] is one   *)
(* row: a batch of more than one sequence does not fit (ValueError).       *)
ActBatch ==
    /\ pc = "batch" /\ fn = "get_activations"
    /\ batch_idx < Len(loader)
    /\ IF Len(Batch) > 1
         THEN /\ pc' = "error" /\ result' = Raised("ValueError")
              /\ UNCHANGED <<recurrentinputs, hidden, inputB, item_idx>>
         ELSE /\ recurrentinputs' =
                     [i \in 1..sequenceLength |-> InputX(Batch, i, FALSE)]
              /\ hidden' = latentstate
              /\ inputB' = NoVec
              /\ item_idx' = 0
              /\ pc' = "step"
              /\ UNCHANGED result
    /\ UNCHANGED <<args, dataRest, orchVars, engineLocals, fn, network,
                   loader, weights, batch_idx, lesionRecord, latentstate,
                   loss, train_loss, test_loss, correct, trials_counter,
                   all_trials_counter, ref_Value, trials_file, calls,
                   whichType, trainset, unique_inputs_n_context,
                   activations, aggregate_activations, counter, actLabels,
                   index, stdout>>

VecAdd(a, b) == [j \in DOMAIN a |-> a[j] + b[j]]

(* What reading a row of an np.empty array gives.                          *)
ReadRow(row) ==
    IF row = NoVec THEN {ZeroVec(hidden_size), [j \in 1..hidden_size |-> 1]}
    ELSE {row}

(* Lines 696-740: one step of the recurrence.  A trial of the wanted type  *)
(* that has a row looks its row up (index keeps its old value when no row  *)
(* matches, and is unbound before the first match), stores its activation  *)
(* and labels there and, past position 0, adds it to the row's tally.      *)
ActStep ==
    /\ pc = "step" /\ fn = "get_activations"
    /\ LET x == recurrentinputs[item_idx + 1]
           h1activations == fc1_activations(x, hidden)
           h0activations == OneStepRNN(x, hidden)
           contextOfTrial == FirstOfBatch.context[item_idx + 1]
           inputA == StimulusSegment(x[1])
           selected == FirstOfBatch.trialtypeinput[item_idx + 1] = TRIAL_TYPE
           keyed == selected /\ (TRIAL_TYPE = 1 => inputB # NoVec)
           input_n_context == IF TRIAL_TYPE = 1
                                THEN inputA \o inputB \o contextOfTrial
                                ELSE inputA \o contextOfTrial
           found == {n \in DOMAIN unique_inputs_n_context :
                        unique_inputs_n_context[n] = input_n_context}
           newindex == IF keyed /\ found # {}
                         THEN CHOOSE n \in found : \A m \in found : n <= m
                         ELSE index
           tallied == selected /\ item_idx > 0
           source == UniqueSource(newindex)
       IN IF (keyed \/ tallied) /\ newindex = UnboundNumber
            THEN /\ pc' = "error" /\ result' = Raised("UnboundLocalError")
                 /\ hidden' = h0activations
                 /\ UNCHANGED <<latentstate, calls, index, inputB,
                                activations, aggregate_activations, counter,
                                actLabels, item_idx, batch_idx>>
            ELSE /\ hidden' = h0activations
                 /\ latentstate' = IF item_idx = sequenceLength - 2
                                     THEN h0activations ELSE latentstate
                 /\ calls' = Append(calls,
                        [batch_idx |-> batch_idx, item_idx |-> item_idx,
                         input |-> x, hidden_in |-> hidden,
                         hidden_out |-> h0activations,
                         fc1 |-> h1activations])
                 /\ index' = newindex
                 /\ inputB' = IF selected /\ TRIAL_TYPE = 1
                                THEN inputA ELSE inputB
                 /\ activations' =
                        IF keyed
                          THEN [activations EXCEPT ![newindex] = h1activations]
                          ELSE activations
                 /\ IF keyed
                      THEN /\ labels_refValues' =
                                [labels_refValues EXCEPT ![newindex] =
                                    turn_one_hot_to_integer(source.refValue)]
                           /\ labels_judgeValues' =
                                [labels_judgeValues EXCEPT ![newindex] =
                                    turn_one_hot_to_integer(
                                        source.judgementValue)]
                           /\ MDSlabels' =
                                [MDSlabels EXCEPT ![newindex] = source.label]
                           /\ contexts' =
                                [contexts EXCEPT ![newindex] =
                                    turn_one_hot_to_integer(source.context)]
                           /\ time_index' =
                                [time_index EXCEPT ![newindex] = batch_idx]
                      ELSE UNCHANGED actLabels
                 /\ IF tallied
                      THEN /\ \E row \in ReadRow(activations'[newindex]) :
                                aggregate_activations' =
                                    [aggregate_activations EXCEPT
                                        ![newindex] = VecAdd(@, row)]
                           /\ counter' =
                                [counter EXCEPT ![newindex] = @ + 1]
                      ELSE UNCHANGED <<aggregate_activations, counter>>
                 /\ IF item_idx + 1 = sequenceLength
                      THEN /\ pc' = "batch"
                           /\ batch_idx' = batch_idx + 1
                           /\ item_idx' = item_idx
                      ELSE /\ pc' = "step"
                           /\ batch_idx' = batch_idx
                           /\ item_idx' = item_idx + 1
                 /\ UNCHANGED result
    /\ UNCHANGED <<args, dataRest, orchVars, engineLocals, fn, network,
                   loader, weights, recurrentinputs, lesionRecord, loss,
                   train_loss, test_loss, correct, trials_counter,
                   all_trials_counter, ref_Value, trials_file, whichType,
                   trainset, unique_inputs_n_context, stdout>>

(* Line 748: np.divide(aggregate_activations, counter), an exact quotient  *)
(* kept as the fraction <<numerator, denominator>> in lowest terms.        *)
RECURSIVE GCD(_, _)
GCD(a, b) == IF b = 0 THEN a ELSE GCD(b, a % b)

Quotient(a, c) == <<a \div GCD(a, c), c \div GCD(a, c)>>

Mean_LastInstance(aggregate, latest, count) ==
    IF latest = NoVec THEN [j \in DOMAIN aggregate |-> <<0, 1>>]
    ELSE [j \in DOMAIN aggregate |-> <<latest[j], 1>>]

Mean(aggregate, latest, count) ==
    [j \in DOMAIN aggregate |-> Quotient(aggregate[j], count)]

(* The ordering without its second stage: by context only.                 *)
RECURSIVE Orderings_ByContextOnly(_)
Orderings_ByContextOnly(rows) ==
    IF rows = {} THEN {<< >>}
    ELSE LET first == {n \in rows : \A m \in rows :
                          ~(contexts[m] < contexts[n])}
         IN UNION { {<<n>> \o rest :
                        rest \in Orderings_ByContextOnly(rows \ {n})} :
                      n \in first }

(* Lines 753-790: the rows ordered by context and, within a context, by    *)
(* the judgement value; np.argsort leaves the order of equal keys open.    *)
(* A row no trial was stored in still holds what np.empty found in memory  *)
(* as its context and judgement value, so it may come out anywhere.        *)
RECURSIVE Orderings(_)
Orderings(rows) ==
    IF rows = {} THEN {<< >>}
    ELSE LET Before(n, m) ==
                 /\ contexts[n] # Uninit /\ contexts[m] # Uninit
                 /\ \/ contexts[n] < contexts[m]
                    \/ /\ contexts[n] = contexts[m]
                       /\ labels_judgeValues[n] < labels_judgeValues[m]
             first == {n \in rows : \A m \in rows : ~Before(m, n)}
         IN UNION { {<<n>> \o rest : rest \in Orderings(rows \ {n})} :
                      n \in first }

(* Lines 743-746: a counter of zero becomes one before the division.       *)
Counted_AllOnes(count) == 1

Counted(count) == IF count = 0 THEN 1 ELSE count

(* Line 746: the warning printed for row i (numbered from 0).              *)
Warning(i) == <<"Warning: index ", i, " input had no instances?">>

RECURSIVE Warnings(_, _)
Warnings(i, counts) ==
    IF i > Len(counts) THEN << >>
    ELSE (IF counts[i] = 0 THEN <<Warning(i - 1)>> ELSE << >>)
         \o Warnings(i + 1, counts)

(* Lines 742-793: the means, the ordering and the returned arrays; stdout  *)
(* receives the warnings of line 746.                                      *)
ActReturn ==
    /\ pc = "batch" /\ fn = "get_activations"
    /\ batch_idx = Len(loader)
    /\ stdout' = stdout \o Warnings(1, counter)
    /\ LET rows == DOMAIN unique_inputs_n_context
           counted == [n \in rows |-> Counted(counter[n])]
           means == [n \in rows |->
                        Mean(aggregate_activations[n], activations[n],
                             counted[n])]
       IN \E order \in Orderings(rows) :
            result' = Returned(
                [activations |-> [i \in rows |-> means[order[i]]],
                 MDSlabels |-> [i \in rows |-> MDSlabels[order[i]]],
                 labels_refValues |->
                     [i \in rows |-> labels_refValues[order[i]]],
                 labels_judgeValues |->
                     [i \in rows |-> labels_judgeValues[order[i]]],
                 contexts |-> [i \in rows |-> contexts[order[i]]],
                 time_index |-> [i \in rows |-> time_index[order[i]]],
                 counter |-> [i \in rows |-> counted[order[i]]]])
    /\ pc' = "returned"
    /\ UNCHANGED <<args, dataRest, orchVars, engineLocals, fn,
                   network, loader, weights, batch_idx, item_idx,
                   recurrentinputs, lesionRecord, hidden, latentstate, loss,
                   train_loss, test_loss, correct, trials_counter,
                   all_trials_counter, ref_Value, trials_file, calls,
                   whichType, trainset, unique_inputs_n_context,
                   activations, aggregate_activations, counter, actLabels,
                   index, inputB>>

(***************************************************************************)
(* The specification of get_activations: one call, on a set of NBatches    *)
(* sequences and its loader, for the compare or the filler trials.         *)
(***************************************************************************)
ActConfigs ==
    { Hyper(BPTT_len, FALSE, FALSE, "true", 1, TRUE, 0, FALSE, 0),
      Hyper(BPTT_len, TRUE, FALSE, "true", 1, TRUE, 0, FALSE, 0),
      Hyper(BPTT_len, FALSE, FALSE, "true", 2, TRUE, 0, FALSE, 0),
      Hyper(BPTT_len, FALSE, FALSE, "true", 1, FALSE, 0, FALSE, 0) }

(* The engine variables get_activations starts from: whichLesion and the  *)
(* rest belong to other calls.                                             *)
ActCallLocals ==
    /\ whichLesion = NoType /\ lesionFrequency = 0
    /\ weights = 0 /\ batch_idx = 0 /\ item_idx = 0
    /\ recurrentinputs = << >> /\ lesionRecord = << >>
    /\ hidden = Zeros /\ latentstate = Zeros
    /\ loss = << >> /\ train_loss = << >> /\ test_loss = << >>
    /\ correct = 0 /\ trials_counter = 0 /\ all_trials_counter = 0
    /\ ref_Value = NaN /\ trials_file = << >>
    /\ assess_idx = 0 /\ trial = 0 /\ tmpinputs = Unbound
    /\ lesion_number = UnboundNumber /\ sequenceAssessment = << >>
    /\ ncomparetrials = 0 /\ overallperf = 0 /\ lesionperf = UnboundNumber
    /\ n_sequences = 0 /\ overallcomparisons = 0
    /\ aggregateLesionPerf = 0 /\ aggregatePerf = 0
    /\ allLesionAssessments = << >>
    /\ calls = << >> /\ result = NoResult

InitAct ==
    /\ args \in ActConfigs
    /\ DataIdle
    /\ network \in Networks
    /\ whichType \in {"compare", "filler"}
    /\ trainset \in [1..NBatches -> DatasetOf(args, ActivationSeries)]
    /\ RowPositions(trainset, TRIAL_TYPE) # {}
    /\ loader = BatchesOf(trainset, args.batch_size)
    /\ fn = "get_activations" /\ pc = "unique"
    /\ unique_inputs_n_context = << >>
    /\ activations = << >> /\ aggregate_activations = << >>
    /\ counter = << >> /\ contexts = << >>
    /\ labels_judgeValues = << >> /\ labels_refValues = << >>
    /\ MDSlabels = << >> /\ time_index = << >>
    /\ index = UnboundNumber /\ inputB = NoVec
    /\ stdout = << >>
    /\ ActCallLocals
    /\ OrchIdle

NextAct == ActUnique \/ ActBatch \/ ActStep \/ ActReturn

SpecAct == InitAct /\ [][NextAct]_vars

(***************************************************************************)
(* get_activations takes the set and its loader as two arguments: a call   *)
(* whose train_loader presents only the first sequences of trainset, so    *)
(* that rows of the set may have no instance in the pass.                  *)
(***************************************************************************)
InitActSubset ==
    /\ args \in {a \in ActConfigs :
                    a.retain_hidden_state /\ a.batch_size = 1}
    /\ DataIdle
    /\ network \in Networks
    /\ whichType \in {"compare", "filler"}
    /\ trainset \in [1..NBatches -> DatasetOf(args, ActivationSeries)]
    /\ RowPositions(trainset, TRIAL_TYPE) # {}
    /\ loader = BatchesOf(SubSeq(trainset, 1, NBatches - 1), args.batch_size)
    /\ fn = "get_activations" /\ pc = "unique"
    /\ unique_inputs_n_context = << >>
    /\ activations = << >> /\ aggregate_activations = << >>
    /\ counter = << >> /\ contexts = << >>
    /\ labels_judgeValues = << >> /\ labels_refValues = << >>
    /\ MDSlabels = << >> /\ time_index = << >>
    /\ index = UnboundNumber /\ inputB = NoVec
    /\ stdout = << >>
    /\ ActCallLocals
    /\ OrchIdle

SpecActSubset == InitActSubset /\ [][NextAct]_vars

(***************************************************************************)
(* Properties of get_activations (specification SpecAct).                  *)
(***************************************************************************)
ActReturned ==
    fn = "get_activations" /\ pc = "returned" /\ args.retain_hidden_state

ValueOf(onehot) == CHOOSE v \in 1..Len(onehot) : onehot[v] = 1

(* The instances of a key in the set: the positions of the wanted type     *)
(* whose stimulus, reference (the stimulus of the compare trial before,    *)
(* for the compare type) and true context are the key's.                   *)
(* A key: stimulus, reference (0 for the filler type, whose rows hold the  *)
(* stimulus and the context only) and true context.                        *)
Keys ==
    (1..TOTALMAXNUM)
    \X (IF whichType = "compare" THEN 1..TOTALMAXNUM ELSE {0})
    \X (1..NCONTEXTS)
Instances(key) ==
    {p \in (DOMAIN trainset) \X (1..Len(trainset[1].input)) :
        LET seq == trainset[p[1]]
            i == p[2]
        IN /\ ValueOf(seq.input[i]) = key[1]
           /\ ValueOf(seq.context[i]) = key[3]
           /\ IF whichType = "compare"
                THEN /\ seq.trialtypeinput[i] = 1
                     /\ \E j \in 1..(i - 1) :
                          /\ seq.trialtypeinput[j] = 1
                          /\ \A k \in (j + 1)..(i - 1) :
                                 seq.trialtypeinput[k] = 0
                          /\ ValueOf(seq.input[j]) = key[2]
                ELSE seq.trialtypeinput[i] = 0 /\ key[2] = 0}

(* The activation the network gave at a position of the set: the loader    *)
(* presents the set in order, one sequence per batch.                      *)
ActivationAt(p) == calls[(p[1] - 1) * Len(trainset[1].input) + p[2]].fc1

RECURSIVE SumOver(_, _)
SumOver(positions, j) ==
    IF positions = {} THEN 0
    ELSE LET p == CHOOSE q \in positions : TRUE
         IN ActivationAt(p)[j] + SumOver(positions \ {p}, j)

RowsOf(key) ==
    {r \in DOMAIN result.value.counter :
        /\ result.value.labels_judgeValues[r] = key[1]
        /\ result.value.contexts[r] = key[3]
        /\ whichType = "compare" => result.value.labels_refValues[r] = key[2]}

(* C10: with hidden-state retention, once get_activations has returned,    *)
(* every key that has instances in the set has exactly one returned row,   *)
(* whose counter is the number of its instances and whose activation is,   *)
(* component by component, the sum of the activations of its instances     *)
(* divided by that number; keys without instances have no row.  Two        *)
(* instances with activations [1,2,..] and [3,4,..] give [2,3,..] and the  *)
(* count 2.                                                                *)
C10_MeanActivationPerKey ==
    ActReturned =>
        \A key \in Keys :
            LET instances == Instances(key)
                n == Cardinality(instances)
            IN IF n = 0 THEN RowsOf(key) = {}
               ELSE /\ Cardinality(RowsOf(key)) = 1
                    /\ \A r \in RowsOf(key) :
                         /\ result.value.counter[r] = n
                         /\ \A j \in 1..hidden_size :
                              LET mean == result.value.activations[r][j] IN
                                /\ mean[2] > 0
                                /\ mean[1] * n =
                                       SumOver(instances, j) * mean[2]
                         /\ (/\ n = 2
                             /\ {SubSeq(ActivationAt(p), 1, 2) :
                                     p \in instances} = {<<1, 2>>, <<3, 4>>})
                            => /\ result.value.activations[r][1] = <<2, 1>>
                               /\ result.value.activations[r][2] = <<3, 1>>

(* A returned call in which a stimulus pair has two instances, with        *)
(* activations [1,2] and [3,4], and its row holds [2,3] and the count 2.   *)
C10_Witness ==
    /\ ActReturned /\ whichType = "compare"
    /\ \E key \in Keys :
         /\ {SubSeq(ActivationAt(p), 1, 2) : p \in Instances(key)}
                = {<<1, 2>>, <<3, 4>>}
         /\ \E r \in RowsOf(key) :
              /\ result.value.counter[r] = 2
              /\ result.value.activations[r][1] = <<2, 1>>
              /\ result.value.activations[r][2] = <<3, 1>>

(* C11: recurrent_test never changes the weights: no step taken while      *)
(* recurrent_test is the running call, its return and the start of a       *)
(* further recurrent_test after it included, changes them, so after any    *)
(* number of evaluate epochs in a row the weights are those from before    *)
(* the first.                                                              *)
C11_TestLeavesWeights ==
    [][(fn = "recurrent_test" /\ fn' = "recurrent_test")
           => weights' = weights]_vars

(* Two evaluate epochs have completed in a row on a network that was       *)
(* trained before them.                                                    *)
C11_Witness ==
    /\ stage = "test" /\ pc = "returned" /\ fn = "recurrent_test"
    /\ weights > 0
    /\ result.raised = ""

(* No sequence of the loader holds a compare trial with a defined label.   *)
NoQualifyingTrial ==
    \A k \in DOMAIN loader : \A b \in DOMAIN loader[k] :
        \A i \in DOMAIN loader[k][b].label :
            ~(/\ loader[k][b].trialtypeinput[i] = 1
              /\ loader[k][b].label[i] \in {0, 1})

(* C12: when the epoch holds no qualifying trial (no compare trial with a  *)
(* defined label in any sequence), recurrent_train and recurrent_test run  *)
(* to their return and raise nothing.                                      *)
C12_ZeroQualifyingCompletes ==
    (fn \in {"recurrent_train", "recurrent_test"} /\ NoQualifyingTrial)
        => result.raised = ""

(* Twice the mean of the range of a true context: context 1 is the low     *)
(* range, context 2 the high range.                                        *)
TwiceOwnMean(ctx) ==
    IF ctx = 1 THEN LOWR_LLIM + LOWR_ULIM ELSE HIGHR_LLIM + HIGHR_ULIM

(* C13: every recorded assessment of recurrent_lesion_test holds, as       *)
(* localmodel_perf, 1 iff the response of the local policy (1 iff the      *)
(* assessed stimulus exceeds the mean of the range of the trial's own true *)
(* context) equals the label of the assessed trial.                        *)
C13_LocalModelUsesOwnContextMean ==
    \A s \in DOMAIN allLesionAssessments :
        \A a \in DOMAIN allLesionAssessments[s] :
            LET made == allLesionAssessments[s][a]
                response == IF 2 * made.assess_number
                                   > TwiceOwnMean(made.underlying_context)
                              THEN 1 ELSE 0
                label == loader[s][1].label[made.assess_idx + 1]
            IN made.localmodel_perf = (IF response = label THEN 1 ELSE 0)

(***************************************************************************)
(* C14: in recurrent_train with retrain_decoder the compare trials of a   *)
(* sequence are lesioned in strict alternation, counting compare trials   *)
(* only: the first, third, fifth compare trial of the sequence is         *)
(* lesioned, the second, fourth is not, whatever fillers lie between.     *)
(***************************************************************************)
ComparesUpTo(i) ==
    Cardinality({ j \in 1..i : FirstOfBatch.trialtypeinput[j] # 0 })

C14_CompareTrialsLesionedAlternately ==
    (fn = "recurrent_train" /\ pc = "step" /\ args.retrain_decoder)
        => \A i \in 1..sequenceLength :
               FirstOfBatch.trialtypeinput[i] # 0
                   => (lesionRecord[i] = 1 <=> ComparesUpTo(i) % 2 = 1)

(***************************************************************************)
(* C15: the arrays get_activations returns are ordered by context,         *)
(* ascending, and within a context by judged value, ascending; and every   *)
(* returned array is the same rearrangement of the array built from the    *)
(* unique keys: returned row i holds, in all seven arrays, the entries of  *)
(* one and the same key row, and every key row is returned exactly once.   *)
(***************************************************************************)
SameRow(i, n) ==
    LET v == result.value
        count == IF counter[n] = 0 THEN 1 ELSE counter[n]
    IN /\ v.contexts[i] = contexts[n]
       /\ v.labels_judgeValues[i] = labels_judgeValues[n]
       /\ v.labels_refValues[i] = labels_refValues[n]
       /\ v.MDSlabels[i] = MDSlabels[n]
       /\ v.time_index[i] = time_index[n]
       /\ v.counter[i] = count
       /\ \A j \in 1..hidden_size :
            v.activations[i][j][1] * count
                = aggregate_activations[n][j] * v.activations[i][j][2]

C15_SortedByContextThenJudgement ==
    ActReturned =>
        LET v == result.value
            rows == DOMAIN unique_inputs_n_context
        IN /\ DOMAIN v.contexts = rows
           /\ \A i, j \in rows :
                i < j => \/ v.contexts[i] < v.contexts[j]
                         \/ /\ v.contexts[i] = v.contexts[j]
                            /\ v.labels_judgeValues[i]
                                   <= v.labels_judgeValues[j]
           /\ \A i \in rows : \E n \in rows : SameRow(i, n)
           /\ \A n \in rows :
                Cardinality({i \in rows : SameRow(i, n)}) = 1

(* A returned call with rows of both contexts and two judged values in a   *)
(* context, whose returned order is not the order of the key rows.         *)
C15_Witness ==
    /\ ActReturned
    /\ LET v == result.value
           rows == DOMAIN v.contexts
       IN /\ \E i, j \in rows : v.contexts[i] < v.contexts[j]
          /\ \E i, j \in rows :
               /\ v.contexts[i] = v.contexts[j]
               /\ v.labels_judgeValues[i] < v.labels_judgeValues[j]
          /\ \E i \in rows : ~SameRow(i, i)

(***************************************************************************)
(* C16: when a key of get_activations has a counter of zero at the end of  *)
(* the pass, the call returns it with the counter 1 and the zero vector as *)
(* its averaged activation, prints one warning that names it, and returns  *)
(* every other key with the counter the pass gave it.                      *)
(***************************************************************************)
NoInstances ==
    {n \in DOMAIN counter : counter[n] = 0}

C16_ZeroCounterBecomesOne ==
    ActReturned =>
        LET v == result.value
            rows == DOMAIN counter
            blank == {i \in rows : v.contexts[i] = Uninit}
        IN /\ Cardinality(blank) = Cardinality(NoInstances)
           /\ \A i \in blank :
                /\ v.counter[i] = 1
                /\ \A j \in 1..hidden_size : v.activations[i][j] = <<0, 1>>
           /\ Len(stdout) = Cardinality(NoInstances)
           /\ \A n \in NoInstances :
                \E k \in DOMAIN stdout :
                    stdout[k] = <<"Warning: index ", n - 1,
                                  " input had no instances?">>
           /\ \A n \in rows \ NoInstances :
                Cardinality({i \in rows :
                    /\ v.contexts[i] = contexts[n]
                    /\ v.labels_judgeValues[i] = labels_judgeValues[n]
                    /\ v.labels_refValues[i] = labels_refValues[n]
                    /\ v.counter[i] = counter[n]}) = 1

(* A returned call in which one key had no instance and another had two.   *)
C16_Witness ==
    /\ ActReturned
    /\ NoInstances # {}
    /\ \E n \in DOMAIN counter : counter[n] = 2
    /\ \E i \in DOMAIN counter :
         result.value.contexts[i] = Uninit /\ result.value.counter[i] = 1

(***************************************************************************)
(* C17, as stated: the training record train_recurrent_network persists    *)
(* holds the hyperparameters and, for every epoch run, all six tracked     *)
(* metrics: six series (standard train loss and accuracy, fair train loss  *)
(* and accuracy, test loss and accuracy) with an entry per epoch.          *)
(***************************************************************************)
MetricSeries == DOMAIN record \ {"args"}

C17_RecordHoldsSixMetricsPerEpoch ==
    stage = "done" =>
        /\ record.args = args
        /\ Cardinality(MetricSeries) = 6
        /\ \A series \in MetricSeries : Len(record[series]) >= epoch

(***************************************************************************)
(* C17, amended: the persisted record holds the hyperparameters and two    *)
(* series, trainingPerformance and testPerformance: the baseline accuracy  *)
(* followed, for every epoch run, by the standard train accuracy and the   *)
(* test accuracy of that epoch.  The six metrics of an epoch (standard     *)
(* train loss and accuracy, fair train loss and accuracy, test loss and    *)
(* accuracy) go to the summary writer, once per epoch, not to the record.  *)
(***************************************************************************)
C17_RecordHoldsAccuracySeries ==
    stage = "done" =>
        /\ DOMAIN record = {"trainingPerformance", "testPerformance", "args"}
        /\ record.args = args
        /\ Len(record.trainingPerformance) = epoch + 1
        /\ Len(record.testPerformance) = epoch + 1
        /\ Len(writer) = epoch
        /\ \A e \in 1..epoch :
             /\ writer[e].epoch = e
             /\ Len(writer[e].train_perf) = 4
             /\ Len(writer[e].test_perf) = 2
             /\ record.trainingPerformance[e + 1] = writer[e].train_perf[2]
             /\ record.testPerformance[e + 1] = writer[e].test_perf[2]

(* A completed run of two epochs whose record is written.                  *)
C17_Witness ==
    /\ stage = "done" /\ epoch = 2
    /\ Len(record.trainingPerformance) = 3
    /\ Len(writer) = 2

(***************************************************************************)
(* C18: every run of train_recurrent_network stops on convergence or after *)
(* the number of epochs the caller set (args.epochs), the short curriculum *)
(* included: an epoch is under way only while fewer than args.epochs       *)
(* epochs have been completed.                                             *)
(***************************************************************************)
C18_EpochsBoundedByArgsEpochs ==
    stage \in {"train", "fair", "test"} => Len(writer) < n_epochs

(***************************************************************************)
(* C19: for every configured BPTT_len the trial-type generator yields a    *)
(* type sequence of the configured length, every sequence built has        *)
(* exactly BPTT_len trials, and the construction of the dataset does not   *)
(* fail.                                                                   *)
(***************************************************************************)
C19_SequencesHaveConfiguredLength ==
    /\ args.label_context # "random" => pc # "error"
    /\ type_sequence # << >> => Len(type_sequence) = args.BPTT_len
    /\ pc \in {"seq_end", "seq_start", "done"}
           => Len(input_sequence) \in {0, args.BPTT_len}

(***************************************************************************)
(* C20: within a block only the first sequence draws a fresh reference;    *)
(* when a later sequence of the block is about to start, judgementValue,   *)
(* the value its first compare trial is drawn against (line 337), is the   *)
(* last stimulus of the block's previous sequence, so that the first       *)
(* stimulus of the sequence cannot repeat it.                              *)
(***************************************************************************)
C20_ReferenceIsLastStimulusOfPreviousSequence ==
    (pc = "seq_start" /\ sample > 0) =>
        /\ ~firstTrialInContext
        /\ judgementValue = Stimulus(Len(input_sequence))

(***************************************************************************)
(* generate_trial_sequence in full (define_dataset.py, lines 125-157), one *)
(* call: the runs are listed, permuted and flattened.  Repetitions is the  *)
(* number of runs of each length (range(10) at line 137).                  *)
(***************************************************************************)
Repetitions == 2

(* Lines 134-150: L3_trialtype, L4_trialtype and L5_trialtype, each with   *)
(* Repetitions runs, concatenated in that order.                           *)
RunList(include_fillers) ==
    [k \in 1..(3 * Repetitions) |->
        Run(3 + ((k - 1) \div Repetitions), include_fillers)]

(* Line 155: the list of runs flattened.                                   *)
RECURSIVE Flatten(_)
Flatten(runs) ==
    IF runs = << >> THEN << >> ELSE Head(runs) \o Flatten(Tail(runs))

GenRuns ==
    /\ pc = "generate"
    /\ type_sequence' = RunList(args.include_fillers)
    /\ pc' = "permute"
    /\ UNCHANGED <<args, phase, block, sample, item, context,
                   randNumDistribution, firstTrialInContext, trialtypeinput,
                   input_sequence, contextsequence, contextinputsequence,
                   previousFillerNum, previousTrialtype, refValue,
                   judgementValue, target, allJValues, allRValues,
                   prevLastCompare, engineVars, orchVars, actVars>>

(* Lines 151-152: permorder = np.random.permutation(...).                   *)
GenPermute ==
    /\ pc = "permute"
    /\ \E permorder \in Permutations(DOMAIN type_sequence) :
         type_sequence' =
             [i \in DOMAIN type_sequence |-> type_sequence[permorder[i]]]
    /\ pc' = "flatten"
    /\ UNCHANGED <<args, phase, block, sample, item, context,
                   randNumDistribution, firstTrialInContext, trialtypeinput,
                   input_sequence, contextsequence, contextinputsequence,
                   previousFillerNum, previousTrialtype, refValue,
                   judgementValue, target, allJValues, allRValues,
                   prevLastCompare, engineVars, orchVars, actVars>>

(* Lines 155-157: the flattened sequence is returned.                      *)
GenFlatten ==
    /\ pc = "flatten"
    /\ type_sequence' = Flatten(type_sequence)
    /\ pc' = "generated"
    /\ UNCHANGED <<args, phase, block, sample, item, context,
                   randNumDistribution, firstTrialInContext, trialtypeinput,
                   input_sequence, contextsequence, contextinputsequence,
                   previousFillerNum, previousTrialtype, refValue,
                   judgementValue, target, allJValues, allRValues,
                   prevLastCompare, engineVars, orchVars, actVars>>

InitGen ==
    /\ args \in DataConfigs
    /\ pc = "generate"
    /\ DataIdle /\ EngineIdle /\ OrchIdle /\ ActIdle

NextGen == GenRuns \/ GenPermute \/ GenFlatten

SpecGen == InitGen /\ [][NextGen]_vars

(***************************************************************************)
(* C21: generate_trial_sequence returns a permutation of a fixed multiset  *)
(* of runs, Repetitions of each of the lengths 3, 4 and 5, flattened: its  *)
(* length is Repetitions * 12, its first trial is a compare trial; with    *)
(* fillers it has 3 * Repetitions compare trials, each followed by 2, 3 or *)
(* 4 fillers before the next compare trial or the end, Repetitions of each *)
(* kind; without fillers every trial is a compare trial.                   *)
(***************************************************************************)
ComparePositions ==
    {i \in DOMAIN type_sequence : type_sequence[i] = "compare"}

(* The number of fillers between compare trial i and the next compare      *)
(* trial, or the end.                                                      *)
FillersAfter(i) ==
    LET later == {j \in ComparePositions : j > i}
        next == IF later = {} THEN Len(type_sequence) + 1
                ELSE CHOOSE j \in later : \A k \in later : j <= k
    IN next - i - 1

C21_PermutationOfFixedRuns ==
    pc = "generated" =>
        /\ Len(type_sequence) = Repetitions * (3 + 4 + 5)
        /\ type_sequence[1] = "compare"
        /\ \A i \in DOMAIN type_sequence :
               type_sequence[i] \in {"compare", "filler"}
        /\ IF args.include_fillers
             THEN /\ Cardinality(ComparePositions) = 3 * Repetitions
                  /\ \A n \in {2, 3, 4} :
                       Cardinality({i \in ComparePositions :
                                       FillersAfter(i) = n}) = Repetitions
             ELSE ComparePositions = DOMAIN type_sequence

(* A returned sequence with fillers whose runs come in another order than  *)
(* they were listed: it starts with a run of 5 and ends with a run of 3.   *)
C21_Witness ==
    /\ pc = "generated" /\ args.include_fillers
    /\ FillersAfter(1) = 4
    /\ type_sequence[Len(type_sequence) - 2] = "compare"

(***************************************************************************)
(* C22: under the 'random' labelling policy every trial gets a context     *)
(* input that is a one-hot vector of length NCONTEXTS (one entry 1, the    *)
(* others 0), and the construction does not fail on the value drawn.       *)
(***************************************************************************)
C22_RandomContextInputIsOneHot ==
    args.label_context = "random" =>
        /\ pc # "error"
        /\ \A i \in DOMAIN contextinputsequence :
             LET v == contextinputsequence[i]
             IN /\ Len(v) = NCONTEXTS
                /\ Cardinality({k \in 1..NCONTEXTS : v[k] = 1}) = 1
                /\ \A k \in 1..NCONTEXTS : v[k] \in {0, 1}

(***************************************************************************)
(* C23, as stated: when the number of sequences of some split is not a     *)
(* multiple of its number of blocks, create_separate_input_data fails      *)
(* before any sequence is generated and before anything is saved.          *)
(***************************************************************************)
Indivisible(p) == NOf(p) % MblocksOf(p) # 0

C23_IndivisibleSplitFailsBeforeAnySequence ==
    (\E p \in 0..MTESTSETS : Indivisible(p)) =>
        /\ pc \in {"phase_start", "reshape_error"}
        /\ type_sequence = << >>

(***************************************************************************)
(* C23, amended: when the number of sequences of a split is not a multiple *)
(* of its number of blocks, the call fails with the ValueError of the      *)
(* reshape of that split's index array when the split's phase begins:      *)
(* before any sequence of that split is generated, with no later split     *)
(* begun and nothing saved, and never with the split cut down to           *)
(* Mblocks * floor(N/Mblocks) sequences.  The sequences of the splits      *)
(* before it have been generated by then.                                  *)
(***************************************************************************)
C23_IndivisibleSplitFailsAtItsPhase ==
    \A p \in 0..MTESTSETS :
        Indivisible(p) =>
            /\ pc # "done"
            /\ phase <= p
            /\ phase = p => pc \in {"phase_start", "reshape_error"}

(* The first test split does not divide: the call has failed at its phase, *)
(* after the sequences of the training split were generated.               *)
C23_Witness ==
    /\ Indivisible(1) /\ ~Indivisible(0)
    /\ phase = 1 /\ pc = "reshape_error"
    /\ Len(input_sequence) = args.BPTT_len

(***************************************************************************)
(* Properties of the hidden state recurrent_lesion_test relays.            *)
(***************************************************************************)

(* The hidden state after the inputs ins[first..last] (counted from 0)     *)
(* have each been stepped through once, starting from h, without noise.    *)
RECURSIVE SteppedOnce(_, _, _, _)
SteppedOnce(h, ins, first, last) ==
    IF first > last THEN h
    ELSE SteppedOnce(Append(h, <<weights, ins[first + 1]>>), ins,
                     first + 1, last)

(* The lesion test reaches the end of position sequenceLength-2 of a       *)
(* sequence with the hidden state retained and no noise.                   *)
RelayStep ==
    /\ fn = "recurrent_lesion_test" /\ pc = "assess_end"
    /\ args.retain_hidden_state /\ args.noise_std = 0
    /\ assess_idx = sequenceLength - 2

(* C24: with retain_hidden_state and zero noise, the hidden state handed   *)
(* to the next sequence is the state the sequence began with (latentstate, *)
(* which the sequence leaves alone until then) stepped exactly once        *)
(* through trials 0..L-2, given as the sequence holds them or as the       *)
(* latest assessment lesioned them, whether trial L-2 is a filler or a     *)
(* compare trial.                                                          *)
C24_RelayedStateSteppedOnce ==
    [][RelayStep =>
         \/ latentstate' = SteppedOnce(latentstate, recurrentinputs, 0,
                                       sequenceLength - 2)
         \/ latentstate' = SteppedOnce(latentstate, tmpinputs, 0,
                                       sequenceLength - 2)]_vars

(* The same for a sequence whose trial L-2 is a filler: no pass has been   *)
(* made at that position, so the relay is the only one.                    *)
C24_FillerRelayedOnce ==
    [][(RelayStep /\ ~IsAssessment(assess_idx)) =>
         latentstate' = SteppedOnce(latentstate, tmpinputs, 0,
                                    sequenceLength - 2)]_vars

(* A compare trial at L-2 has been assessed and the state relayed: it is   *)
(* the start state stepped through trials 0..L-2 twice.                    *)
C24_RelayedTwice ==
    /\ fn = "recurrent_lesion_test" /\ pc = "assess"
    /\ args.retain_hidden_state /\ args.noise_std = 0
    /\ assess_idx = sequenceLength - 1
    /\ IsAssessment(sequenceLength - 2)
    /\ Len(latentstate) >= 2 * (sequenceLength - 1)

(***************************************************************************)
(* Properties of the tallies of recurrent_lesion_test.                     *)
(***************************************************************************)

(* The pass of an assessment is at a compare trial whose label is NaN.     *)
UndefinedCompareTrial ==
    /\ fn = "recurrent_lesion_test" /\ pc = "trial"
    /\ FirstOfBatch.trialtypeinput[trial + 1] = 1
    /\ FirstOfBatch.label[trial + 1] = NaN

(* The assessment that ends is of a compare trial whose label is NaN.      *)
UndefinedAssessment ==
    /\ fn = "recurrent_lesion_test" /\ pc = "assess_end"
    /\ IsAssessment(assess_idx)
    /\ FirstOfBatch.label[assess_idx + 1] = NaN

(* C25: a compare trial whose label is undefined (NaN) adds nothing to     *)
(* the numerators overallperf, lesionperf and their aggregates, and        *)
(* nothing to the denominators overallcomparisons and n_sequences.         *)
C25_UndefinedLabelNotTallied ==
    [][/\ UndefinedCompareTrial =>
            /\ overallperf' = overallperf
            /\ overallcomparisons' = overallcomparisons
            /\ trial = assess_idx => lesionperf' = 0
       /\ UndefinedAssessment =>
            /\ aggregateLesionPerf' = aggregateLesionPerf
            /\ n_sequences' = n_sequences]_vars

(* The numerators alone: a NaN label equals no prediction.                 *)
C25_UndefinedLabelAddsNoCorrect ==
    [][/\ UndefinedCompareTrial =>
            /\ overallperf' = overallperf
            /\ trial = assess_idx => lesionperf' = 0
       /\ UndefinedAssessment =>
            aggregateLesionPerf' = aggregateLesionPerf]_vars

(* The denominator n_sequences alone.                                      *)
C25_UndefinedAssessmentNotCounted ==
    [][UndefinedAssessment => n_sequences' = n_sequences]_vars

(***************************************************************************)
(* Properties of the accuracy recurrent_train and recurrent_test return.   *)
(***************************************************************************)

(* An epoch of recurrent_train or recurrent_test has ended.                *)
EpochEnded ==
    /\ fn \in {"recurrent_train", "recurrent_test"}
    /\ \/ pc = "returned"
       \/ pc = "batch" /\ batch_idx = Len(loader)

C26_CorrectWithinTrialsOfSingleSequences ==
    (EpochEnded /\ args.batch_size = 1) =>
        (0 <= correct /\ correct <= trials_counter)

(***************************************************************************)
(* Properties of the audit lines of recurrent_test.                        *)
(***************************************************************************)

(* A step of recurrent_test that writes the line of a trial.               *)
WritesTrialLine ==
    /\ fn = "recurrent_test" /\ pc = "step"
    /\ Len(trials_file') > Len(trials_file)

(* The reference the dataset computed the label of position i (counted     *)
(* from 0) of the first sequence of the batch against: refValue.           *)
LabelReference(i) == turn_one_hot_to_integer(FirstOfBatch.refValue[i + 1])

(* The compare trial nearest before position i had a defined label.        *)
PrecedingCompareLabelled(i) ==
    \E j \in 1..i :
        /\ FirstOfBatch.trialtypeinput[j] = 1
        /\ \A k \in (j + 1)..i : FirstOfBatch.trialtypeinput[k] = 0
        /\ FirstOfBatch.label[j] # NaN

(* C27: in every line recurrent_test writes for a trial, the logged        *)
(* reference value is the value the trial's label was computed against:    *)
(* the stimulus of the compare trial nearest before it in the sequence,    *)
(* also when that compare trial had an undefined label.                    *)
C27_LoggedReferenceIsLabelReference ==
    [][WritesTrialLine =>
         trials_file'[Len(trials_file) + 1].values[2] =
             LabelReference(item_idx)]_vars

(* The same for the trials whose preceding compare trial had a label.      *)
C27_LoggedReferenceAfterLabelledCompare ==
    [][(WritesTrialLine /\ PrecedingCompareLabelled(item_idx)) =>
         trials_file'[Len(trials_file) + 1].values[2] =
             LabelReference(item_idx)]_vars

(* C28: with batches of one sequence recurrent_test never writes the       *)
(* 'Misclassified' marker: in every line of a trial the guess equals the   *)
(* label exactly when the correctness flag is 1.                           *)
C28_NoMisclassifiedMarker ==
    (fn = "recurrent_test" /\ args.batch_size = 1) =>
        \A i \in DOMAIN trials_file :
            /\ trials_file[i].kind # "Misclassified"
            /\ trials_file[i].kind = "trial" =>
                  (trials_file[i].values[3] = trials_file[i].values[4]
                       <=> trials_file[i].values[5] = 1)

(* The audit of a test on single sequences holds a line of a correct and   *)
(* a line of a wrong guess.                                                *)
C28_Witness ==
    /\ fn = "recurrent_test" /\ args.batch_size = 1
    /\ \E i, j \in DOMAIN trials_file :
          /\ trials_file[i].kind = "trial" /\ trials_file[j].kind = "trial"
          /\ trials_file[i].values[5] = 1
          /\ trials_file[i].values[3] = trials_file[i].values[4]
          /\ trials_file[j].values[5] = 0
          /\ trials_file[j].values[3] # trials_file[j].values[4]

(***************************************************************************)
(* Properties of the number ranges of the training blocks.                 *)
(***************************************************************************)

(* A sequence of blocked short training over all contexts is being built.  *)
BlockedShortTraining ==
    /\ args.which_context = 0 /\ ~args.all_fullrange /\ ~args.train_long
    /\ phase = 0
    /\ pc \in {"trial", "resample_compare", "resample_filler", "seq_end"}

(* C29: in blocked short training over all contexts every compare          *)
(* stimulus of a block with index below Mblocks/2 lies in the low range    *)
(* and is stored with context 1, every compare stimulus of the other       *)
(* blocks lies in the high range and is stored with context 2, and every   *)
(* filler stimulus lies in the full range.                                 *)
C29_BlocksSplitEvenlyByRange ==
    BlockedShortTraining =>
        \A i \in DOMAIN input_sequence :
            IF trialtypeinput[i] = 1
              THEN IF 2 * block < MBLOCKS
                     THEN /\ Stimulus(i) \in LOWR_LLIM..LOWR_ULIM
                          /\ contextsequence[i] = 1
                     ELSE /\ Stimulus(i) \in HIGHR_LLIM..HIGHR_ULIM
                          /\ contextsequence[i] = 2
              ELSE Stimulus(i) \in FULLR_LLIM..FULLR_ULIM

(* A sequence of a block of the second half is complete, with a compare    *)
(* stimulus of the high range and a filler from outside that range.        *)
C29_Witness ==
    /\ BlockedShortTraining /\ pc = "seq_end"
    /\ 2 * block >= MBLOCKS
    /\ \E i, j \in DOMAIN input_sequence :
          /\ trialtypeinput[i] = 1
          /\ Stimulus(i) \in HIGHR_LLIM..HIGHR_ULIM
          /\ contextsequence[i] = 2
          /\ trialtypeinput[j] = 0
          /\ Stimulus(j) \notin HIGHR_LLIM..HIGHR_ULIM

(***************************************************************************)
(* The resampling loops of create_separate_input_data (lines 347-349 and   *)
(* 359-360) under fair random choice.  The configurations cover the        *)
(* regimes of the sampler, each with two sequences per training block so   *)
(* that a reference is carried from one sequence to the next: blocked      *)
(* training (low blocks, then high) with its full-range test phases, the   *)
(* interleaved mixture, and the linking pair of the long regime, the       *)
(* latter with fillers and on sequences one trial longer: a filler is      *)
(* drawn again only directly after the compare trial of a second run,      *)
(* which is the fifth trial at the earliest.  Fillers are drawn from the   *)
(* full range in every regime.                                             *)
(***************************************************************************)
SamplingConfigs ==
    { Counts(Config(FALSE, FALSE, FALSE, "true", 0), 2 * MBLOCKS, MBLOCKS),
      Counts(Config(FALSE, TRUE, FALSE, "true", 0), 2 * MBLOCKS, 0),
      Counts(Scaled(Config(TRUE, FALSE, TRUE, "true", 0), BPTT_len + 1),
             2 * MBLOCKS_LONG, 0) }

InitSampling ==
    /\ args \in SamplingConfigs
    /\ DataStart /\ EngineIdle /\ OrchIdle /\ ActIdle

NextSampling ==
    \/ PhaseStart
    \/ StartSequence
    \/ CompareTrial
    \/ FillerTrial
    \/ EndSequence

(* A draw that ends a resampling loop: random.choice and random.randint    *)
(* give every value of the range a positive probability at every draw, so  *)
(* a loop that keeps having an admissible value cannot miss it forever.    *)
CompareAccepted ==
    pc = "resample_compare" /\ CompareTrial /\ pc' # "resample_compare"

FillerAccepted ==
    pc = "resample_filler" /\ FillerTrial /\ pc' # "resample_filler"

SpecSampling ==
    /\ InitSampling /\ [][NextSampling]_vars
    /\ WF_vars(CompareAccepted) /\ WF_vars(FillerAccepted)

Resampling == pc \in {"resample_compare", "resample_filler"}

(* C30: under fair random choice both resampling loops terminate: a        *)
(* compare trial that drew its reference and a filler that drew the        *)
(* previous filler are each followed by an accepted draw, in every regime  *)
(* and for every reference value reached.                                  *)
C30_ResamplingTerminates == Resampling ~> ~Resampling

(* The reason: whenever a loop is resampling, its range holds a value      *)
(* other than the one to avoid.                                            *)
C30_AdmissibleValueExists ==
    /\ pc = "resample_compare" =>
          \E v \in Draws(randNumDistribution) : v # refValue
    /\ pc = "resample_filler" =>
          \E n \in FULLR_LLIM..FULLR_ULIM :
              turn_one_hot(n, TOTALMAXNUM) # previousFillerNum

(* A compare trial is drawing again in each regime.                        *)
CompareResampling(regime) ==
    /\ pc = "resample_compare"
    /\ CASE regime = "low" ->
              ~args.all_fullrange /\ ~args.train_long /\ phase = 0
              /\ 2 * block < MBLOCKS
         [] regime = "high" ->
              ~args.all_fullrange /\ ~args.train_long /\ phase = 0
              /\ 2 * block >= MBLOCKS
         [] regime = "mixture" -> args.all_fullrange /\ phase = 0
         [] regime = "test" -> phase > 0
         [] regime = "linking" -> args.train_long /\ phase = 0

(* The second sequence of a block of the long regime draws a filler again  *)
(* after its compare trial, against the previous filler.                   *)
C30_Witness ==
    /\ pc = "resample_filler" /\ args.train_long /\ phase = 0
    /\ sample = 1
    /\ previousTrialtype = "compare" /\ previousFillerNum # NoVec

Init == InitData /\ EngineIdle /\ OrchIdle /\ ActIdle
Next == NextData
Spec == Init /\ [][Next]_vars

====
